---- MODULE Spec2Model ----
(***************************************************************************)
(* WeatherAlerts: the TTL cache store (services/database.py), the bulk     *)
(* fetch of forecasts (services/weather_service copy.py), the background   *)
(* task manager (utils/background.py) and the alert pipeline               *)
(* (routes/api_routes.py), as state machines over the two SQLite tables.   *)
(*                                                                         *)
(* Time is counted in ticks.  `now` is the UTC clock SQLite reads as       *)
(* CURRENT_TIMESTAMP; `tz` is the host's local-time offset, so Python's    *)
(* naive datetime.now() is now + tz.                                       *)
(***************************************************************************)
EXTENDS Integers, Sequences, FiniteSets, TLC

VARIABLES
    weather,    \* table weather_cache: a set of rows
    alerts,     \* table alerts: a set of rows
    now,        \* UTC clock (CURRENT_TIMESTAMP)
    tz,         \* local-time offset of the host (datetime.now() = now + tz)
    last,       \* the last store call of the store specifications, with its result
    th,         \* per request: the locals of its handler or background thread
    hist,       \* per request: history of its regeneration (read by the claims only)
    tasks,          \* BackgroundTaskManager.tasks: task_id -> thread
    task_results,   \* BackgroundTaskManager.task_results
    task_errors,    \* BackgroundTaskManager.task_errors
    response        \* per request: the HTTP response, once sent

storeVars == <<weather, alerts, now, tz, last>>
taskVars == <<tasks, task_results, task_errors>>
pipeVars == <<th, hist, tasks, task_results, task_errors, response>>
vars == <<weather, alerts, now, tz, last, th, hist, tasks, task_results,
          task_errors, response>>

(***************************************************************************)
(* Bounds of the model and program constants                               *)
(***************************************************************************)
MaxClock == 3
MaxTuples == 2
MaxResolveClock == 2
MaxMaintClock == 2
CACHE_TIME == 2

TzOffsets == {0 - CACHE_TIME, 0, 1}
Provinces == {"PUNJAB", "SINDH"}
Districts == {"LAHORE", "MULTAN"}
Horizons == {1, 3}
Values == {"a", "b"}

\* Python's None, and the empty dict
None == <<>>
EmptyDict == <<>>

\* no store call yet
NoCall == [op |-> "none", key |-> None, val |-> None, dbok |-> TRUE,
           ret |-> None, after_set |-> None, before |-> None]

(***************************************************************************)
(* Formatting                                                              *)
(***************************************************************************)
\* str(n) of an f-string, for the horizons in use
Str(n) == CASE n = 1 -> "1" [] n = 3 -> "3" [] OTHER -> "?"

\* utils.validation.sanitize_filename on a name of letters only
sanitize_filename(name) == name

\* f"weather_{forecast_days}_{province}_{sanitized_district}"
WeatherKey(days, province, district) ==
    <<"weather", Str(days), province, sanitize_filename(district)>>

\* json.dumps / json.loads: a stored text is either the encoding of a value
\* or a text that is no JSON document
JsonDumps(v) == <<"json", v>>
IsJson(text) == text[1] = "json"
JsonLoads(text) == text[2]
Garbage == <<"garbage", "x">>

(***************************************************************************)
(* get_db_connection: commit on normal exit, rollback when the body or the *)
(* connection raised                                                       *)
(***************************************************************************)
\* mutant: a transaction that failed is committed all the same
commit_despite_error(dbok, committed, before) == committed

get_db_connection(dbok, committed, before) == IF dbok THEN committed ELSE before

(***************************************************************************)
(* weather_cache operations                                                *)
(***************************************************************************)
\* mutant: a plain INSERT that keeps the row already under the key
InsertWeatherKeepingOld(w, row) == w \cup {row}

\* INSERT OR REPLACE INTO weather_cache: the row of the same key goes
InsertOrReplaceWeather(w, row) ==
    {r \in w : r.cache_key # row.cache_key} \cup {row}

\* the row set_raw_weather_cache binds: created_at is CURRENT_TIMESTAMP (UTC),
\* expires_at is datetime.now() (local) + Config.CACHE_TIME
RawWeatherRow(cache_key, data, t, off) ==
    [cache_key |-> cache_key, data |-> JsonDumps(data),
     created_at |-> t, expires_at |-> (t + off) + CACHE_TIME]

set_raw_weather_cache(w, cache_key, data, t, off, dbok) ==
    get_db_connection(dbok,
        InsertOrReplaceWeather(w, RawWeatherRow(cache_key, data, t, off)), w)

\* WHERE cache_key = ? AND expires_at > CURRENT_TIMESTAMP
LiveWeatherRows(w, cache_key, t) ==
    {r \in w : r.cache_key = cache_key /\ r.expires_at > t}

\* the value get_raw_weather_cache returns: (data, created_at) or None.  A
\* json.loads error leaves the with-block as an exception: rollback, None.
get_raw_weather_cache(w, cache_key, t, dbok) ==
    LET rows == LiveWeatherRows(w, cache_key, t) IN
    IF ~dbok \/ rows = {} THEN None
    ELSE LET row == CHOOSE r \in rows : TRUE IN
         IF IsJson(row.data) THEN <<JsonLoads(row.data), row.created_at>>
         ELSE None

\* the table after get_raw_weather_cache: it executes a SELECT only
get_raw_weather_cache_table(w, cache_key, t, dbok) == w

\* get_weather_cache (the DataFrame variant): value returned
get_weather_cache(w, cache_key, t, dbok) ==
    LET rows == LiveWeatherRows(w, cache_key, t) IN
    IF ~dbok \/ rows = {} THEN None
    ELSE LET row == CHOOSE r \in rows : TRUE IN
         IF IsJson(row.data) THEN <<JsonLoads(row.data)>>
         ELSE None

\* get_weather_cache: the table afterwards; a row that does not parse is
\* deleted on the same cursor and the block commits
get_weather_cache_table(w, cache_key, t, dbok) ==
    LET rows == LiveWeatherRows(w, cache_key, t) IN
    IF rows # {} /\ \E r \in rows : ~IsJson(r.data)
    THEN get_db_connection(dbok, {r \in w : r.cache_key # cache_key}, w)
    ELSE w

\* mutant: the batch query without its expiry filter
BatchWeatherRowsNoExpiry(w, cache_keys, t) ==
    {r \in w : r.cache_key \in cache_keys}

\* the batch query: WHERE cache_key IN (...) AND expires_at > CURRENT_TIMESTAMP
BatchWeatherRows(w, cache_keys, t) ==
    {r \in w : r.cache_key \in cache_keys /\ r.expires_at > t}

\* get_raw_weather_cache_batch: the live rows of the keys, a row that does
\* not parse skipped
get_raw_weather_cache_batch(w, cache_keys, t, dbok) ==
    IF cache_keys = {} \/ ~dbok THEN EmptyDict
    ELSE LET rows == {r \in BatchWeatherRows(w, cache_keys, t) : IsJson(r.data)} IN
         [k \in {r.cache_key : r \in rows} |->
            LET row == CHOOSE r \in rows : r.cache_key = k IN
            <<JsonLoads(row.data), row.created_at>>]

(***************************************************************************)
(* alerts operations                                                       *)
(***************************************************************************)
\* the PRIMARY KEY (province, district, forecast_days) of a row
AlertKey(r) == <<r.province, r.district, r.forecast_days>>

\* mutant: a plain INSERT that keeps the row already under the key
InsertAlertKeepingOld(a, row) == a \cup {row}

\* INSERT OR REPLACE INTO alerts: the row of the same primary key goes
InsertOrReplaceAlert(a, row) ==
    {r \in a : AlertKey(r) # AlertKey(row)} \cup {row}

\* the row save_alert binds
AlertRow(province, district, days, text, t, off) ==
    [province |-> province, district |-> district, forecast_days |-> days,
     alert_text |-> text, created_at |-> t, expires_at |-> (t + off) + CACHE_TIME]

\* mutant: a save that fails puts the alert of the earlier regeneration back
save_alert_restoring_old(a, province, district, days, text, t, off, dbok) ==
    get_db_connection(dbok,
        InsertOrReplaceAlert(a, AlertRow(province, district, days, text, t, off)),
        InsertOrReplaceAlert(a, AlertRow(province, district, days, <<"alert", "old">>, 0, 0)))

save_alert(a, province, district, days, text, t, off, dbok) ==
    get_db_connection(dbok,
        InsertOrReplaceAlert(a, AlertRow(province, district, days, text, t, off)), a)

\* WHERE (province, district, forecast_days) IN (VALUES ...) AND expires_at >
\* CURRENT_TIMESTAMP
TupleInRows(a, tuples, t) ==
    {r \in a : /\ \E i \in 1..Len(tuples) : AlertKey(r) = tuples[i]
               /\ r.expires_at > t}

\* WHERE c1 OR c2 ... OR cn AND expires_at > CURRENT_TIMESTAMP: SQL's AND binds
\* tighter than OR, so the expiry test belongs to the last clause only
OrChainRows(a, tuples, t) ==
    {r \in a : \/ \E i \in 1..(Len(tuples) - 1) : AlertKey(r) = tuples[i]
               \/ /\ AlertKey(r) = tuples[Len(tuples)]
                  /\ r.expires_at > t}

\* get_alerts_batch; tuple_syntax: whether the SQLite build accepts the row
\* value IN query (else sqlite3.OperationalError and the OR chain)
get_alerts_batch(a, tuples, t, dbok, tuple_syntax) ==
    IF tuples = <<>> \/ ~dbok THEN EmptyDict
    ELSE LET rows == IF tuple_syntax THEN TupleInRows(a, tuples, t)
                     ELSE OrChainRows(a, tuples, t) IN
         [k \in {AlertKey(r) : r \in rows} |->
            (CHOOSE r \in rows : AlertKey(r) = k).alert_text]

\* set_weather_cache (the DataFrame variant): the frame as JSON records
set_weather_cache(w, cache_key, df, t, off, dbok) ==
    get_db_connection(dbok,
        InsertOrReplaceWeather(w, RawWeatherRow(cache_key, df, t, off)), w)

(***************************************************************************)
(* purge_cache_db: one transaction over all its DELETEs                    *)
(***************************************************************************)
\* f"forecast_{province}_{district}_{forecast_days}" and
\* f"alerts_{province}_{forecast_days}_{district}"
ForecastKey(province, district, days) == <<"forecast", province, district, Str(days)>>
AlertsFrameKey(province, days, district) == <<"alerts", province, Str(days), district>>
\* f"combined_{province}_{forecast_days}_{d}"
CombinedFrameKey(province, days, district) == <<"combined", province, Str(days), district>>

\* cache_key LIKE f"forecast_{province}_%_{forecast_days}" OR
\* cache_key LIKE f"alerts_{province}_{forecast_days}_%"
LikePurgePatterns(cache_key, province, days) ==
    \/ cache_key[1] = "forecast" /\ cache_key[2] = province /\ cache_key[4] = Str(days)
    \/ cache_key[1] = "alerts" /\ cache_key[2] = province /\ cache_key[3] = Str(days)

\* mutant: the DELETE by province alone, whatever the forecast_days
PurgedAlertRowsAnyDays(a, province, districts, days) ==
    {r \in a : /\ r.province = province
               /\ (districts = {} \/ r.district \in districts)}

\* the alerts rows the DELETEs remove: all rows of (province, forecast_days)
\* for an empty list, else the rows of the listed districts
PurgedAlertRows(a, province, districts, days) ==
    {r \in a : /\ r.province = province
               /\ r.forecast_days = days
               /\ (districts = {} \/ r.district \in districts)}

PurgedWeatherRows(w, province, districts, days) ==
    IF districts = {}
    THEN {r \in w : LikePurgePatterns(r.cache_key, province, days)}
    ELSE {r \in w : \E d \in districts :
            \/ r.cache_key = ForecastKey(province, d, days)
            \/ r.cache_key = AlertsFrameKey(province, days, d)}

\* mutant: the count is the number of districts named, not of rows deleted
purge_cache_db_counting_names(a, w, province, districts, days, dbok) ==
    [alerts  |-> get_db_connection(dbok,
                    a \ PurgedAlertRows(a, province, districts, days), a),
     weather |-> get_db_connection(dbok,
                    w \ PurgedWeatherRows(w, province, districts, days), w),
     count   |-> IF dbok THEN Cardinality(districts) ELSE 0]

\* the tables after purge_cache_db, and the count it returns (the rowcounts
\* of the DELETEs on alerts; 0 when the transaction failed)
purge_cache_db(a, w, province, districts, days, dbok) ==
    [alerts  |-> get_db_connection(dbok,
                    a \ PurgedAlertRows(a, province, districts, days), a),
     weather |-> get_db_connection(dbok,
                    w \ PurgedWeatherRows(w, province, districts, days), w),
     count   |-> IF dbok
                 THEN Cardinality(PurgedAlertRows(a, province, districts, days))
                 ELSE 0]

(***************************************************************************)
(* The alert pipeline: generate_alerts (background task) and               *)
(* generate_forecast_and_alerts (in the request), over get_bulk_weather_data*)
(***************************************************************************)
Requests == {"r1", "r2"}
\* the route of a request: generate_alerts ("task") or
\* generate_forecast_and_alerts ("sync")
Modes(p) == IF p = "r1" THEN {"task"} ELSE {"task", "sync"}

\* the request body: province, forecast_days, and the districts list
ReqProvince == "PUNJAB"
ReqDays == 1
DistrictLists == {<<>>, <<"LAHORE">>}

\* models.PROVINCES[province], in dict order
PROVINCES(province) == <<"LAHORE", "MULTAN">>

\* districts_to_fetch: all districts of the province for an empty list
districts_to_fetch(province, districts) ==
    IF districts = <<>> THEN PROVINCES(province)
    ELSE SelectSeq(districts,
            LAMBDA d : \E i \in 1..Len(PROVINCES(province)) : PROVINCES(province)[i] = d)

\* task_id = f"alerts_{province}_{forecast_days}_{time.time()}": the requests
\* arrive at different times
task_id(p) == <<"alerts", ReqProvince, Str(ReqDays), p>>

\* what the upstream API answers with status 200: the forecast document, with
\* or without its "daily" part
Payloads == {<<"forecast", "daily">>, <<"forecast", "nodaily">>}

\* the DataFrame create_weather_dataframe builds from the daily part: its
\* columns hold the values of the payload
Frame(data) == <<"frame", data>>

\* the alert text generated in request p for a district
AlertText(p) == <<"alert", p>>

\* cache_time=0 is what both routes pass to get_bulk_weather_data
RouteCacheTime == 0

\* age = (datetime.now() - created_at).total_seconds(): local now, UTC created_at
Age(created_at) == (now + tz) - created_at

Idle == [pc |-> "idle", mode |-> "task", todo |-> <<>>, uncached |-> {},
         cached_data |-> <<>>, forecasts |-> <<>>, pending |-> None,
         parsed |-> <<>>, outcome |-> None]

NoHist == [calls |-> <<>>, swallowed |-> FALSE]

PipeIdle ==
    /\ th = [p \in Requests |-> Idle]
    /\ hist = [p \in Requests |-> NoHist]
    /\ tasks = <<>>
    /\ task_results = <<>>
    /\ task_errors = <<>>
    /\ response = [p \in Requests |-> None]

\* the alerts left by earlier regenerations
OldAlerts ==
    {AlertRow(k[1], k[2], k[3], <<"alert", "old">>, 0, 0) :
        k \in {<<"PUNJAB", "LAHORE", 1>>, <<"PUNJAB", "MULTAN", 1>>,
               <<"PUNJAB", "LAHORE", 3>>, <<"SINDH", "LAHORE", 1>>}}

PipelineTzOffsets == {0 - 1, 0}

Init ==
    /\ weather = {}
    /\ alerts \in {OldAlerts}
    /\ now = 0
    /\ tz \in PipelineTzOffsets
    /\ last = NoCall
    /\ PipeIdle

\* dict update d[k] = v, and del d[k]
Put(f, k, v) == (k :> v) @@ f
Del(f, k) == [x \in DOMAIN f \ {k} |-> f[x]]

\* the locals of a handler whose pipeline function has returned or raised
Ended(mode, outcome) == [Idle EXCEPT !.pc = "end", !.mode = mode, !.outcome = outcome]

\* a step of request p: its locals change as given; hist records the purge
\* and save calls the running pipeline has made so far, and whether a store
\* error was swallowed in one of them
Step(p, locals, call, dbok) ==
    /\ th' = [th EXCEPT ![p] = locals]
    /\ hist' = [hist EXCEPT ![p] =
                  [calls |-> IF locals.pc = "end" THEN <<>>
                             ELSE IF call = None THEN @.calls
                             ELSE Append(@.calls, call[1]),
                   swallowed |-> @.swallowed \/ (call # None /\ ~dbok)]]

\* the request arrives; generate_alerts schedules generate_alerts_task with
\* run_task (tasks[task_id] = thread; thread.start()) and answers
\* "processing", generate_forecast_and_alerts runs the pipeline itself
Start(p) ==
    /\ th[p].pc = "idle"
    /\ \E m \in Modes(p), districts \in DistrictLists :
        /\ tasks' = IF m = "task" THEN Put(tasks, task_id(p), p) ELSE tasks
        /\ response' = IF m = "task" THEN [response EXCEPT ![p] = <<"processing">>]
                       ELSE response
        /\ UNCHANGED <<weather, alerts, now, tz, last, task_results, task_errors>>
        /\ Step(p, [Idle EXCEPT !.pc = "lookup", !.mode = m,
                       !.todo = districts_to_fetch(ReqProvince, districts)],
                None, TRUE)

\* mutant: the route goes on whatever the fetch returned
never_stops(weather_data) == FALSE

\* if not weather_data
not_weather_data(weather_data) == DOMAIN weather_data = {}

\* get_bulk_weather_data has returned weather_data to the route: nothing
\* fetched ends the regeneration (return None in the task, the error document
\* in the request), else the loop over weather_data.items() starts
AfterFetch(locals) ==
    IF not_weather_data(locals.cached_data)
    THEN Ended(locals.mode, <<"abort">>)
    ELSE [locals EXCEPT !.pc = IF DOMAIN locals.cached_data = {} THEN "generate"
                               ELSE "transform"]

\* get_bulk_weather_data is still at work (pc as given) or returns
FetchStep(locals, pc) ==
    IF pc = "return" THEN AfterFetch(locals) ELSE [locals EXCEPT !.pc = pc]

\* get_bulk_weather_data, the loop over districts: one get_raw_weather_cache
\* and the age test; with nothing uncached it returns cached_data
Lookup(p) ==
    /\ th[p].pc = "lookup"
    /\ th[p].todo # <<>>
    /\ \E dbok \in BOOLEAN :
        LET d == Head(th[p].todo)
            cache_result == get_raw_weather_cache(weather,
                                WeatherKey(ReqDays, ReqProvince, d), now, dbok)
            hit == cache_result # None /\ Age(cache_result[2]) < RouteCacheTime
            uncached == IF hit THEN th[p].uncached ELSE th[p].uncached \cup {d}
            rest == Tail(th[p].todo)
        IN  /\ UNCHANGED <<weather, alerts, now, tz, last, taskVars, response>>
            /\ Step(p, FetchStep([th[p] EXCEPT
                                    !.todo = rest,
                                    !.uncached = uncached,
                                    !.cached_data = IF hit THEN Put(@, d, cache_result[1])
                                                    ELSE @],
                                  IF rest # <<>> THEN "lookup"
                                  ELSE IF uncached = {} THEN "return" ELSE "fetch"),
                    None, TRUE)

\* one future of the pool completes with no data (HTTP error, exception); the
\* last future ends get_bulk_weather_data
FetchFailed(p) ==
    /\ th[p].pc = "fetch"
    /\ \E d \in th[p].uncached :
        /\ UNCHANGED <<weather, alerts, now, tz, last, taskVars, response>>
        /\ Step(p, FetchStep([th[p] EXCEPT !.uncached = @ \ {d}],
                              IF th[p].uncached = {d} THEN "return" ELSE "fetch"),
                None, TRUE)

\* one future completes with data: set_raw_weather_cache, cached_data[d] = data
FetchDone(p) ==
    /\ th[p].pc = "fetch"
    /\ \E d \in th[p].uncached, data \in Payloads, dbok \in BOOLEAN :
        /\ weather' = set_raw_weather_cache(weather,
                          WeatherKey(ReqDays, ReqProvince, d), data, now, tz, dbok)
        /\ UNCHANGED <<alerts, now, tz, last, taskVars, response>>
        /\ Step(p, FetchStep([th[p] EXCEPT !.uncached = @ \ {d},
                                                !.cached_data = Put(@, d, data)],
                              IF th[p].uncached = {d} THEN "return" ELSE "fetch"),
                None, TRUE)

\* the key of the frame cache in the two routes
FrameKey(p, d) ==
    IF th[p].mode = "task" THEN AlertsFrameKey(ReqProvince, ReqDays, d)
    ELSE CombinedFrameKey(ReqProvince, ReqDays, d)

\* the loop "for d, data in weather_data.items()": data.get("daily") and
\* create_weather_dataframe up to its get_weather_cache
TransformGet(p) ==
    /\ th[p].pc = "transform"
    /\ th[p].pending = None
    /\ \E d \in DOMAIN th[p].cached_data \ DOMAIN th[p].forecasts, dbok \in BOOLEAN :
        LET data == th[p].cached_data[d]
            cached_df == get_weather_cache(weather, FrameKey(p, d), now, dbok)
        IN  /\ weather' = IF data[2] = "nodaily" THEN weather
                          ELSE get_weather_cache_table(weather, FrameKey(p, d), now, dbok)
            /\ UNCHANGED <<alerts, now, tz, last, taskVars, response>>
            /\ IF data[2] = "nodaily"
               THEN Step(p, Ended(th[p].mode, <<"raise", "transform">>), None, TRUE)
               ELSE IF cached_df # None
               THEN Step(p, [th[p] EXCEPT
                               !.forecasts = Put(@, d, cached_df[1]),
                               !.pc = IF DOMAIN th[p].cached_data = DOMAIN th[p].forecasts \cup {d}
                                      THEN "generate" ELSE "transform"],
                         None, TRUE)
               ELSE Step(p, [th[p] EXCEPT !.pending = <<d>>], None, TRUE)

\* create_weather_dataframe after a miss: build the frame, set_weather_cache
TransformSet(p) ==
    /\ th[p].pc = "transform"
    /\ th[p].pending # None
    /\ \E dbok \in BOOLEAN :
        LET d == th[p].pending[1]
            df == Frame(th[p].cached_data[d])
        IN  /\ weather' = set_weather_cache(weather, FrameKey(p, d), df, now, tz, dbok)
            /\ UNCHANGED <<alerts, now, tz, last, taskVars, response>>
            /\ Step(p, [th[p] EXCEPT
                          !.pending = None,
                          !.forecasts = Put(@, d, df),
                          !.pc = IF DOMAIN th[p].cached_data = DOMAIN th[p].forecasts \cup {d}
                                 THEN "generate" ELSE "transform"],
                    None, TRUE)

\* alert_service.generate_alert and parse_district_alerts: the generator
\* raises, or its text parses into alerts for some of the districts given
Generate(p) ==
    /\ th[p].pc = "generate"
    /\ UNCHANGED <<weather, alerts, now, tz, last, taskVars, response>>
    /\ \/ Step(p, Ended(th[p].mode, <<"raise", "generator">>), None, TRUE)
       \/ \E ds \in SUBSET DOMAIN th[p].forecasts :
            Step(p, [th[p] EXCEPT !.pc = "purge",
                                  !.parsed = [d \in ds |-> AlertText(p)]],
                 None, TRUE)

\* mutant: the purge is given every district of the province
PurgeWholeProvince(p) ==
    {PROVINCES(ReqProvince)[i] : i \in 1..Len(PROVINCES(ReqProvince))}

\* list(forecasts.keys()), the districts handed to the purge
PurgeDistricts(p) == DOMAIN th[p].forecasts

\* alert_service.purge_cache(province, districts, forecast_days)
alert_service_purge_cache(a, w, province, districts, days, dbok) ==
    purge_cache_db(a, w, province, districts, days, dbok)

\* save_district_alerts has alerts left to save (pc "save"), or the pipeline
\* returns its success document
AfterSave(locals) ==
    IF DOMAIN locals.parsed = {} THEN Ended(locals.mode, <<"success">>)
    ELSE [locals EXCEPT !.pc = "save"]

\* mutant: the pipeline goes on to the saves without the purge
SkipPurge(p) ==
    /\ th[p].pc = "purge"
    /\ UNCHANGED <<weather, alerts, now, tz, last, taskVars, response>>
    /\ Step(p, AfterSave(th[p]), None, TRUE)

\* the purge of the old alerts, before the saves
Purge(p) ==
    /\ th[p].pc = "purge"
    /\ \E dbok \in BOOLEAN :
        LET out == alert_service_purge_cache(alerts, weather, ReqProvince,
                        PurgeDistricts(p), ReqDays, dbok)
        IN  /\ alerts' = out.alerts
            /\ weather' = out.weather
            /\ UNCHANGED <<now, tz, last, taskVars, response>>
            /\ Step(p, AfterSave(th[p]), <<"purge">>, dbok)

\* alert_service.save_district_alerts: one save_alert per parsed alert
Save(p) ==
    /\ th[p].pc = "save"
    /\ \E d \in DOMAIN th[p].parsed, dbok \in BOOLEAN :
        /\ alerts' = save_alert(alerts, ReqProvince, d, ReqDays, th[p].parsed[d],
                                now, tz, dbok)
        /\ UNCHANGED <<weather, now, tz, last, taskVars, response>>
        /\ Step(p, AfterSave([th[p] EXCEPT !.parsed = Del(@, d)]), <<"save">>, dbok)

\* run_task's wrapper: task_results[task_id] = result, or in its except
\* task_errors[task_id] = str(e); "return None" is a result
WrapperRecord(p) ==
    /\ th[p].pc = "end"
    /\ th[p].mode = "task"
    /\ task_results' = CASE th[p].outcome = <<"abort">> -> Put(task_results, task_id(p), None)
                         [] th[p].outcome = <<"success">> -> Put(task_results, task_id(p), <<"success">>)
                         [] OTHER -> task_results
    /\ task_errors' = IF th[p].outcome[1] = "raise"
                      THEN Put(task_errors, task_id(p), th[p].outcome)
                      ELSE task_errors
    /\ UNCHANGED <<weather, alerts, now, tz, last, tasks, response>>
    /\ Step(p, [th[p] EXCEPT !.pc = "finally"], None, TRUE)

\* the wrapper's finally: del self.tasks[task_id]; the thread ends
WrapperFinally(p) ==
    /\ th[p].pc = "finally"
    /\ tasks' = IF task_id(p) \in DOMAIN tasks THEN Del(tasks, task_id(p)) ELSE tasks
    /\ UNCHANGED <<weather, alerts, now, tz, last, task_results, task_errors, response>>
    /\ Step(p, [th[p] EXCEPT !.pc = "done"], None, TRUE)

\* generate_forecast_and_alerts answers: the error document for no data,
\* the success document, or 503 from its except
Respond(p) ==
    /\ th[p].pc = "end"
    /\ th[p].mode = "sync"
    /\ response' = [response EXCEPT ![p] =
                      CASE th[p].outcome = <<"abort">> -> <<"error", 200>>
                        [] th[p].outcome = <<"success">> -> <<"success", 200>>
                        [] OTHER -> <<"error", 503>>]
    /\ UNCHANGED <<weather, alerts, now, tz, last, taskVars>>
    /\ Step(p, [th[p] EXCEPT !.pc = "done"], None, TRUE)

Next ==
    \E p \in Requests :
        \/ Start(p)
        \/ Lookup(p)
        \/ FetchFailed(p)
        \/ FetchDone(p)
        \/ TransformGet(p)
        \/ TransformSet(p)
        \/ Generate(p)
        \/ Purge(p)
        \/ Save(p)
        \/ WrapperRecord(p)
        \/ WrapperFinally(p)
        \/ Respond(p)

Spec == Init /\ [][Next]_vars

\* BackgroundTaskManager.is_running / get_result / get_error
is_running(tid) == tid \in DOMAIN tasks /\ th[tasks[tid]].pc # "done"
get_result(tid) == IF tid \in DOMAIN task_results THEN task_results[tid] ELSE None
get_error(tid) == IF tid \in DOMAIN task_errors THEN task_errors[tid] ELSE None

(***************************************************************************)
(* Claims on the alert pipeline, under Spec                                *)
(***************************************************************************)
\* the step is one of request p
StepOf(p) == th'[p] # th[p]

\* PRIMARY KEY (province, district, forecast_days): one row per key
OneRowPerKey == \A r1, r2 \in alerts : AlertKey(r1) = AlertKey(r2) => r1 = r2

\* the calls of a running pipeline: one purge, then saves only
PurgeThenSaves(calls) ==
    calls # <<>> => /\ calls[1] = "purge"
                    /\ \A i \in 2..Len(calls) : calls[i] = "save"

\* C1: in every regeneration the purge call has returned before the first
\* save_alert is issued, purge and saves are steps of one thread in that
\* order, and no state holds two alert rows (an old and a new one) for one
\* (province, district, forecast_days).
C1_PurgeBeforeSave ==
    /\ [](OneRowPerKey /\ \A p \in Requests : PurgeThenSaves(hist[p].calls))
    /\ [][\A p \in Requests :
            (StepOf(p) /\ th[p].pc = "save")
                => (hist[p].calls # <<>> /\ hist[p].calls[1] = "purge")]_vars

\* C1 witness: a regeneration has purged two districts and saved the first
\* new alert: that district has the new row only, the other has none yet.
C1_Witness ==
    \E p \in Requests :
        /\ hist[p].calls = <<"purge", "save">>
        /\ ~hist[p].swallowed
        /\ \E d \in Districts :
            /\ d \notin DOMAIN th[p].parsed
            /\ {r.alert_text : r \in {x \in alerts : AlertKey(x) = <<ReqProvince, d, ReqDays>>}}
                  = {AlertText(p)}
        /\ \E d \in DOMAIN th[p].parsed :
            ~\E r \in alerts : AlertKey(r) = <<ReqProvince, d, ReqDays>>

\* C2: a regeneration whose fetch step yields no payload ends there (return
\* None, or the error document) and no step of it, from the request to its
\* end, changes the alerts table or the weather cache; no pipeline is past
\* its fetch step without a payload.
C2_NoPayloadNoChange ==
    [][\A p \in Requests :
        /\ (StepOf(p) /\ \/ th'[p].outcome = <<"abort">>
                         \/ /\ th'[p].pc \in {"lookup", "fetch"}
                            /\ DOMAIN th'[p].cached_data = {})
              => (alerts' = alerts /\ weather' = weather)
        /\ (th[p].pc \in {"lookup", "fetch"} /\ th'[p].pc \notin {"lookup", "fetch"})
              => IF th'[p].pc = "end" THEN th'[p].outcome = <<"abort">>
                 ELSE /\ th'[p].pc = "transform"
                      /\ DOMAIN th'[p].cached_data # {}]_vars

\* C2 witness: a regeneration over both districts ended with nothing fetched;
\* the tables are as the earlier regenerations left them.
C2_Witness ==
    \E p \in Requests :
        /\ th[p].pc = "done"
        /\ th[p].outcome = <<"abort">>
        /\ alerts = OldAlerts
        /\ weather = {}

\* C3: a background regeneration whose fetch produced nothing ends with
\* error(task_id) populated and result(task_id) absent.
C3_EmptyFetchIsTaskError ==
    \A p \in Requests :
        (th[p].pc = "done" /\ th[p].mode = "task" /\ th[p].outcome = <<"abort">>)
            => (get_error(task_id(p)) # None /\ get_result(task_id(p)) = None)

\* C4: a background regeneration in which a step after the fetch failed (the
\* transform or the generator raised, or the store failed in the purge or in
\* a save_alert) ends with error(task_id) populated and no result.
C4_LateFailureIsTaskError ==
    \A p \in Requests :
        (/\ th[p].pc = "done"
         /\ th[p].mode = "task"
         /\ th[p].outcome # <<"abort">>
         /\ (th[p].outcome # <<"success">> \/ hist[p].swallowed))
            => (get_error(task_id(p)) # None /\ get_result(task_id(p)) = None)

\* the alert rows of the request's province and horizon for the districts ds
ScopeRows(a, ds) ==
    {r \in a : r.province = ReqProvince /\ r.forecast_days = ReqDays /\ r.district \in ds}

\* C5: the purge of a regeneration deletes the alert rows of exactly the
\* districts its fetch step returned a payload for (province and horizon of
\* the request), or nothing when the store fails; and no step of the
\* regeneration deletes, adds or changes an alert row of another district,
\* province or horizon.
C5_PurgeExactlyFetched ==
    [][\A p \in Requests :
        /\ (StepOf(p) /\ th[p].pc = "purge")
              => \/ alerts' = alerts \ ScopeRows(alerts, DOMAIN th[p].cached_data)
                 \/ hist'[p].swallowed /\ alerts' = alerts
        /\ StepOf(p)
              => (alerts \ alerts') \cup (alerts' \ alerts)
                    \subseteq ScopeRows(alerts \cup alerts', DOMAIN th[p].cached_data)]_vars

\* C5 witness: LAHORE and MULTAN were requested, only LAHORE was fetched, the
\* purge went through: LAHORE's row is gone, MULTAN's old row is there.
C5_Witness ==
    \E p \in Requests :
        /\ hist[p].calls = <<"purge">>
        /\ ~hist[p].swallowed
        /\ DOMAIN th[p].cached_data = {"LAHORE"}
        /\ ScopeRows(alerts, {"LAHORE"}) = {}
        /\ ScopeRows(alerts, {"MULTAN"}) = ScopeRows(OldAlerts, {"MULTAN"})
        /\ \A q \in Requests \ {p} : th[q].pc = "idle"

\* the district a save step of p saves
SavedDistrict(p) ==
    CHOOSE d \in DOMAIN th[p].parsed :
        th'[p].pc = "end" \/ d \notin DOMAIN th'[p].parsed

\* C6: under every interleaving of regenerations there is at most one alert
\* row per (province, district, forecast_days), and a save_alert that commits
\* leaves under its key the new row alone.
C6_OneRowPerKeyAndReplace ==
    /\ []OneRowPerKey
    /\ [][\A p \in Requests :
            (StepOf(p) /\ th[p].pc = "save")
                => LET d == SavedDistrict(p)
                       row == AlertRow(ReqProvince, d, ReqDays, th[p].parsed[d], now, tz)
                   IN  \/ alerts' = alerts
                       \/ /\ ScopeRows(alerts', {d}) = {row}
                          /\ alerts' \ {row} = alerts \ ScopeRows(alerts, {d})]_vars

\* C6 witness: the purge of a regeneration failed, so LAHORE's old row was
\* still there when its save_alert for LAHORE committed; the row is the new one.
C6_Witness ==
    \E p \in Requests :
        /\ hist[p].calls = <<"purge", "save">>
        /\ \A q \in Requests \ {p} : th[q].pc = "idle"
        /\ ScopeRows(alerts, {"MULTAN"}) = ScopeRows(OldAlerts, {"MULTAN"})
        /\ "MULTAN" \in DOMAIN th[p].parsed
        /\ {r.alert_text : r \in ScopeRows(alerts, {"LAHORE"})} = {AlertText(p)}


\* C28: when the save of a new alert fails after the purge, nothing is rolled
\* back: the regeneration goes on to its next save or to its success
\* document, and no step of a regeneration puts a row into the alerts table
\* other than a save of one of its own new alerts, so the purged alert of the
\* key is not restored.
C28_NoRollbackAfterFailedSave ==
    [][\A p \in Requests :
        StepOf(p) =>
            /\ \A r \in alerts' \ alerts :
                  /\ th[p].pc = "save"
                  /\ r.alert_text = AlertText(p)
            /\ (th[p].pc = "save" /\ alerts' = alerts)
                  => \/ th'[p].pc = "save"
                     \/ th'[p].pc = "end" /\ th'[p].outcome = <<"success">>]_vars

\* C28 witness: a regeneration over both districts has ended with its
\* success document; its purge went through and every save failed: the
\* province has no alert row left for the horizon.
C28_Witness ==
    \E p \in Requests :
        /\ th[p].pc = "done"
        /\ th[p].outcome = <<"success">>
        /\ hist[p].swallowed
        /\ ScopeRows(alerts, Districts) = {}
        /\ \A q \in Requests \ {p} : th[q].pc = "idle"

(***************************************************************************)
(* The store on its own: single calls on weather_cache, with the clock     *)
(***************************************************************************)
CacheKeys == {WeatherKey(3, "PUNJAB", d) : d \in Districts}


InitCache ==
    /\ weather = {}
    /\ alerts = {}
    /\ now = 0
    /\ tz \in TzOffsets
    /\ last = NoCall
    /\ PipeIdle

Tick ==
    /\ now < MaxClock
    /\ now' = now + 1
    /\ last' = [NoCall EXCEPT !.op = "tick"]
    /\ UNCHANGED <<weather, alerts, tz>>
    /\ UNCHANGED pipeVars

\* set(k, v): set_raw_weather_cache
CacheSet ==
    \E k \in CacheKeys, v \in Values, dbok \in BOOLEAN :
        /\ weather' = set_raw_weather_cache(weather, k, v, now, tz, dbok)
        /\ last' = [NoCall EXCEPT !.op = "set", !.key = k, !.val = <<v>>,
                                  !.dbok = dbok,
                                  !.before = {r \in weather : r.cache_key = k}]
        /\ UNCHANGED <<alerts, now, tz>>
        /\ UNCHANGED pipeVars

\* get(k): get_raw_weather_cache; after_set holds v when the call before was
\* a committed set(k, v)
CacheGet ==
    \E k \in CacheKeys, dbok \in BOOLEAN :
        /\ weather' = get_raw_weather_cache_table(weather, k, now, dbok)
        /\ last' = [NoCall EXCEPT !.op = "get", !.key = k, !.dbok = dbok,
                        !.ret = get_raw_weather_cache(weather, k, now, dbok),
                        !.after_set = IF last.op = "set" /\ last.key = k /\ last.dbok
                                      THEN last.val ELSE None]
        /\ UNCHANGED <<alerts, now, tz>>
        /\ UNCHANGED pipeVars

\* get_weather_cache(k)
CacheGetFrame ==
    \E k \in CacheKeys, dbok \in BOOLEAN :
        /\ weather' = get_weather_cache_table(weather, k, now, dbok)
        /\ last' = [NoCall EXCEPT !.op = "get_frame", !.key = k, !.dbok = dbok,
                        !.ret = get_weather_cache(weather, k, now, dbok)]
        /\ UNCHANGED <<alerts, now, tz>>
        /\ UNCHANGED pipeVars

\* get_batch(keys): get_raw_weather_cache_batch
CacheGetBatch ==
    \E ks \in SUBSET CacheKeys, dbok \in BOOLEAN :
        /\ last' = [NoCall EXCEPT !.op = "get_batch", !.key = ks, !.dbok = dbok,
                        !.ret = get_raw_weather_cache_batch(weather, ks, now, dbok)]
        /\ UNCHANGED <<weather, alerts, now, tz>>
        /\ UNCHANGED pipeVars

\* damage to the database file: the data of a row is no longer a JSON text
CorruptRow ==
    \E r \in weather :
        /\ IsJson(r.data)
        /\ weather' = (weather \ {r}) \cup {[r EXCEPT !.data = Garbage]}
        /\ last' = [NoCall EXCEPT !.op = "corrupt", !.key = r.cache_key]
        /\ UNCHANGED <<alerts, now, tz>>
        /\ UNCHANGED pipeVars

NextCache ==
    \/ Tick
    \/ CacheSet
    \/ CacheGet
    \/ CacheGetFrame
    \/ CacheGetBatch
    \/ CorruptRow

SpecCache == InitCache /\ [][NextCache]_vars

(***************************************************************************)
(* Claims on the weather cache, under SpecCache                            *)
(***************************************************************************)
\* a row of the table under key k that the SELECTs see (expires_at > now)
HasLiveRow(k) == \E r \in weather : r.cache_key = k /\ r.expires_at > now

\* C7: set(k, v, ttl) followed immediately by get(k) returns v, and get(k)
\* is a miss once no row of k has expires_at in the future.  Stated for calls
\* that reached the database.
C7_SetThenGetReturnsValue ==
    /\ (last.op = "get" /\ last.dbok /\ last.after_set # None)
          => (last.ret # None /\ last.ret[1] = last.after_set[1])
    /\ (last.op = "get" /\ ~HasLiveRow(last.key)) => last.ret = None

C10_CorruptRowDeletedOnGet ==
    (last.op \in {"get", "get_frame"} /\ last.dbok)
        => /\ ~\E r \in weather : /\ r.cache_key = last.key
                                  /\ r.expires_at > now
                                  /\ ~IsJson(r.data)
           /\ (\A r \in weather : r.cache_key = last.key => ~IsJson(r.data))
                 => last.ret = None

\* the rows of the table under key k
RowsOf(k) == {r \in weather : r.cache_key = k}

\* C11: set is an unconditional upsert.  In every state the table holds at
\* most one row per key; right after a committed set(k, v) the row of k is the
\* row of that set (its payload, created_at = now, expires_at of that write),
\* whatever was under k before; a set that did not commit, a get, a batch get
\* and the passing of time leave the table as it was.
C11_SetIsUpsert ==
    /\ [](\A r1, r2 \in weather : r1.cache_key = r2.cache_key => r1 = r2)
    /\ []((last.op = "set" /\ last.dbok)
            => RowsOf(last.key) = {RawWeatherRow(last.key, last.val[1], now, tz)})
    /\ [][(\/ last'.op \in {"get", "get_batch", "tick"}
           \/ last'.op = "set" /\ ~last'.dbok) => weather' = weather]_vars
    /\ [][last'.op = "set"
            => \A r \in weather : r.cache_key # last'.key => r \in weather']_vars

\* C11 witness: a committed set on a key that held a row of another payload
\* written at an earlier time; the row now is the new one alone.
C11_Witness ==
    /\ last.op = "set" /\ last.dbok
    /\ \E old \in last.before :
          /\ old.created_at < now
          /\ old.data # JsonDumps(last.val[1])
    /\ RowsOf(last.key) = {RawWeatherRow(last.key, last.val[1], now, tz)}

(***************************************************************************)
(* resolve: WeatherService.get_bulk_weather_data on its own, called again  *)
(* and again by one caller while the clock runs                            *)
(***************************************************************************)
Resolvers == {"r1"}

\* the districts dict of a call, in dict order: a subsequence of these
ResolveDistricts == <<"LAHORE", "MULTAN", "MURREE">>
KeyLists ==
    {<<>>, <<"LAHORE">>, <<"MULTAN">>, <<"LAHORE", "MULTAN", "MURREE">>}

\* the cache_time argument: None (then self.cache_time) or a number of ticks
CacheTimeArgs == {None, <<1>>}

\* self.cache_time = Config.CACHE_TIME
self_cache_time == CACHE_TIME

\* the horizon of the calls
ResolveDays == 3

\* response.json() of a 200 answer for district d at time t
FetchedData(d, t) == <<"forecast", d, t>>

\* the elements of a list
Range(seq) == {seq[i] : i \in 1..Len(seq)}

\* the locals of get_bulk_weather_data; fresh, within and unread record what
\* the table held when each key was looked up (read by the claims only)
ResolveIdle ==
    [pc |-> "idle", cache_time |-> 0, keys |-> <<>>, todo |-> <<>>,
     uncached |-> <<>>, futures |-> {}, cached_data |-> <<>>,
     hits |-> {}, fetched |-> {}, failed |-> {},
     fresh |-> {}, within |-> {}, unread |-> {}, result |-> None]

InitResolve ==
    /\ weather = {}
    /\ alerts = {}
    /\ now = 0
    /\ tz \in TzOffsets
    /\ last = NoCall
    /\ th = [p \in Resolvers |-> ResolveIdle]
    /\ hist = [p \in Resolvers |-> NoHist]
    /\ tasks = <<>>
    /\ task_results = <<>>
    /\ task_errors = <<>>
    /\ response = [p \in Resolvers |-> None]

\* a live row of the key exists whose age, the time since it was written, is
\* below ttl
FreshRow(d, ttl) ==
    \E r \in weather : /\ r.cache_key = WeatherKey(ResolveDays, "PUNJAB", d)
                       /\ r.expires_at > now
                       /\ now - r.created_at < ttl

\* if not hit: uncached.append(...)
UncachedAfter(uncached, hit, d) == IF hit THEN uncached ELSE Append(uncached, d)

\* mutant: a fetched payload is stored in the result with a mark
MergeMarksSource(cached_data, d, data) ==
    IF data = None THEN cached_data ELSE Put(cached_data, d, <<"fetched", data>>)

\* mutant: a failed fetch loses what was collected so far
MergeDropsOnFailure(cached_data, d, data) ==
    IF data = None THEN EmptyDict ELSE Put(cached_data, d, data)

\* "if data: cached_data[district_name] = data", else the error is logged
Merge(cached_data, d, data) ==
    IF data = None THEN cached_data ELSE Put(cached_data, d, data)

\* the loop over districts has ended, or not yet: "if not uncached: return
\* cached_data", else the futures are submitted
AfterLookup(locals) ==
    IF locals.todo # <<>> THEN [locals EXCEPT !.pc = "lookup"]
    ELSE IF locals.uncached = <<>>
    THEN [locals EXCEPT !.pc = "returned", !.result = <<locals.cached_data>>]
    ELSE [locals EXCEPT !.pc = "fetch", !.futures = Range(locals.uncached)]

\* as_completed has more futures, or "return cached_data"
AfterFuture(locals) ==
    IF locals.futures # {} THEN locals
    ELSE [locals EXCEPT !.pc = "returned", !.result = <<locals.cached_data>>]

\* get_bulk_weather_data(province, districts, forecast_days, cache_time)
ResolveStart(p) ==
    /\ th[p].pc \in {"idle", "returned"}
    /\ \E ks \in KeyLists, ct \in CacheTimeArgs :
        th' = [th EXCEPT ![p] = AfterLookup([ResolveIdle EXCEPT
                    !.cache_time = IF ct = None THEN self_cache_time ELSE ct[1],
                    !.keys = ks, !.todo = ks])]
    /\ UNCHANGED <<weather, alerts, now, tz, last, hist, taskVars, response>>

\* one turn of the loop over districts.items()
ResolveLookup(p) ==
    /\ th[p].pc = "lookup"
    /\ \E dbok \in BOOLEAN :
        LET d == Head(th[p].todo)
            cache_result == get_raw_weather_cache(weather,
                                WeatherKey(ResolveDays, "PUNJAB", d), now, dbok)
            hit == cache_result # None /\ Age(cache_result[2]) < th[p].cache_time
        IN  th' = [th EXCEPT ![p] = AfterLookup([@ EXCEPT
                    !.todo = Tail(@),
                    !.uncached = UncachedAfter(@, hit, d),
                    !.cached_data = IF hit THEN Put(@, d, cache_result[1]) ELSE @,
                    !.hits = IF hit THEN @ \cup {d} ELSE @,
                    !.fresh = IF FreshRow(d, th[p].cache_time) THEN @ \cup {d} ELSE @,
                    !.within = IF FreshRow(d, CACHE_TIME) THEN @ \cup {d} ELSE @,
                    !.unread = IF dbok THEN @ ELSE @ \cup {d}])]
    /\ UNCHANGED <<weather, alerts, now, tz, last, hist, taskVars, response>>

\* a future completes with data: set_raw_weather_cache, then the merge
ResolveFetchOk(p) ==
    /\ th[p].pc = "fetch"
    /\ \E d \in th[p].futures, dbok \in BOOLEAN :
        LET data == FetchedData(d, now) IN
        /\ weather' = set_raw_weather_cache(weather,
                          WeatherKey(ResolveDays, "PUNJAB", d), data, now, tz, dbok)
        /\ th' = [th EXCEPT ![p] = AfterFuture([@ EXCEPT
                    !.futures = @ \ {d},
                    !.fetched = @ \cup {d},
                    !.cached_data = Merge(@, d, data)])]
    /\ UNCHANGED <<alerts, now, tz, last, hist, taskVars, response>>

\* a future completes without data: a non-200 status or an exception
ResolveFetchFail(p) ==
    /\ th[p].pc = "fetch"
    /\ \E d \in th[p].futures :
        th' = [th EXCEPT ![p] = AfterFuture([@ EXCEPT
                    !.futures = @ \ {d},
                    !.failed = @ \cup {d},
                    !.cached_data = Merge(@, d, None)])]
    /\ UNCHANGED <<weather, alerts, now, tz, last, hist, taskVars, response>>

\* the clock
ResolveTick ==
    /\ now < MaxResolveClock
    /\ now' = now + 1
    /\ UNCHANGED <<weather, alerts, tz, last, pipeVars>>

NextResolve ==
    \/ ResolveTick
    \/ \E p \in Resolvers :
        \/ ResolveStart(p)
        \/ ResolveLookup(p)
        \/ ResolveFetchOk(p)
        \/ ResolveFetchFail(p)

SpecResolve == InitResolve /\ [][NextResolve]_vars

(***************************************************************************)
(* Claims on resolve, under SpecResolve                                    *)
(***************************************************************************)
\* the keys of the call of p that have been looked up, by a lookup that
\* reached the database
LookedUp(p) == (Range(th[p].keys) \ Range(th[p].todo)) \ th[p].unread

\* C12: the lifetime of an entry is fixed when it is written: a key whose row
\* was written less than the TTL of the write (Config.CACHE_TIME) ago is a
\* hit for resolve, whatever ttl the resolve call was given.  Stated for a
\* host whose local time is UTC.
C12_LifetimeFixedAtWrite ==
    tz = 0 =>
        \A p \in Resolvers : \A d \in LookedUp(p) :
            d \in th[p].within => d \in th[p].hits

\* C17: a resolve call whose keys are all cached (live, age below the ttl of
\* the call), or that has no key, issues no fetch; a call none of whose keys
\* is cached issues one fetch per key, none twice.
C17_FetchCallsPerKey ==
    \A p \in Resolvers :
        (th[p].pc \in {"fetch", "returned"} /\ th[p].unread = {}) =>
            /\ Range(th[p].keys) \subseteq th[p].fresh => th[p].uncached = <<>>
            /\ th[p].fresh = {} =>
                  /\ Range(th[p].uncached) = Range(th[p].keys)
                  /\ Len(th[p].uncached) = Len(th[p].keys)

\* C18: resolve dispatches a fetch for a key if and only if the key has no
\* fresh entry when it is looked up, fresh meaning a live row whose age is
\* below the ttl passed to resolve.
C18_FetchIffNotFresh ==
    \A p \in Resolvers : \A d \in LookedUp(p) :
        d \in Range(th[p].uncached) <=> d \notin th[p].fresh

\* C19: the mapping resolve returns is the union of its cache hits and its
\* successful fetches: the keys are requested keys, hits and fetches are
\* disjoint so the size is their sum, each key has the payload stored or
\* fetched for that key, and a payload has the same form from either source.
C19_ResultIsHitsAndFetches ==
    \A p \in Resolvers :
        th[p].pc = "returned" =>
            LET result == th[p].result[1] IN
            /\ DOMAIN result = th[p].hits \cup th[p].fetched
            /\ DOMAIN result \subseteq Range(th[p].keys)
            /\ th[p].hits \cap th[p].fetched = {}
            /\ Cardinality(DOMAIN result) =
                  Cardinality(th[p].hits) + Cardinality(th[p].fetched)
            /\ \A d \in DOMAIN result :
                  \E t \in 0..MaxResolveClock + 1 : result[d] = FetchedData(d, t)

\* C19 witness: a call over three districts returned a hit and a fetched one.
C19_Witness ==
    \E p \in Resolvers :
        /\ th[p].pc = "returned"
        /\ Len(th[p].keys) = 3
        /\ th[p].hits # {}
        /\ th[p].fetched # {}
        /\ DOMAIN th[p].result[1] = th[p].hits \cup th[p].fetched

\* C20: a fetch that failed is dropped: the call goes on to return (it is
\* never left with no future and no result), the failed key is not in the
\* result, and every hit and every fetched key is, with its payload.
C20_FailedFetchIsDropped ==
    \A p \in Resolvers :
        /\ (th[p].pc = "fetch" => th[p].futures # {})
        /\ th[p].pc \in {"fetch", "returned"} =>
              /\ th[p].failed \cap DOMAIN th[p].cached_data = {}
              /\ \A d \in th[p].hits \cup th[p].fetched :
                    /\ d \in DOMAIN th[p].cached_data
                    /\ th[p].cached_data[d][2] = d
        /\ th[p].pc = "returned" => th[p].result = <<th[p].cached_data>>

\* C20 witness: of three districts one was a hit, one was fetched, and the
\* fetch of the third failed; the call returned the first two.
C20_Witness ==
    \E p \in Resolvers :
        /\ th[p].pc = "returned"
        /\ th[p].hits # {}
        /\ th[p].fetched # {}
        /\ th[p].failed # {}
        /\ DOMAIN th[p].result[1] = Range(th[p].keys) \ th[p].failed

(***************************************************************************)
(* Purge and cleanup: purge_cache_db, the /purge_cache endpoint and        *)
(* cleanup_expired_cache, on tables filled by save_alert and               *)
(* set_weather_cache                                                       *)
(***************************************************************************)
\* the keys under which the maintenance specification saves alerts
MaintAlertKeys ==
    {<<"PUNJAB", "LAHORE", 1>>, <<"PUNJAB", "MULTAN", 1>>,
     <<"PUNJAB", "LAHORE", 3>>, <<"SINDH", "LAHORE", 1>>}

\* and the keys under which it caches frames and forecasts
MaintWeatherKeys == {AlertsFrameKey("PUNJAB", 1, "LAHORE")}

\* the districts lists of the purge calls
PurgeLists == {<<>>, <<"LAHORE">>}

InitMaint ==
    /\ weather = {}
    /\ alerts = {}
    /\ now = 0
    /\ tz = 0
    /\ last = NoCall
    /\ PipeIdle

MaintTick ==
    /\ now < MaxMaintClock
    /\ now' = now + 1
    /\ last' = [NoCall EXCEPT !.op = "tick"]
    /\ UNCHANGED <<weather, alerts, tz, pipeVars>>

\* save_alert(province, district, forecast_days, alert_text)
MaintSaveAlert ==
    \E k \in MaintAlertKeys :
        /\ alerts' = save_alert(alerts, k[1], k[2], k[3], "a", now, tz, TRUE)
        /\ last' = [NoCall EXCEPT !.op = "save_alert"]
        /\ UNCHANGED <<weather, now, tz, pipeVars>>

\* set_weather_cache(cache_key, df) / set_raw_weather_cache(cache_key, data)
MaintSetWeather ==
    \E k \in MaintWeatherKeys :
        /\ weather' = set_raw_weather_cache(weather, k, "a", now, tz, TRUE)
        /\ last' = [NoCall EXCEPT !.op = "set_frame"]
        /\ UNCHANGED <<alerts, now, tz, pipeVars>>

\* purge_cache_db(province, districts, forecast_days)
PurgeCall ==
    \E province \in Provinces, districts \in PurgeLists, days \in Horizons,
       dbok \in BOOLEAN :
        LET out == purge_cache_db(alerts, weather, province, Range(districts),
                                  days, dbok)
        IN  /\ alerts' = out.alerts
            /\ weather' = out.weather
            /\ last' = [NoCall EXCEPT !.op = "purge",
                            !.key = <<province, districts, days>>,
                            !.dbok = dbok, !.ret = <<out.count>>]
            /\ UNCHANGED <<now, tz, pipeVars>>

\* validate_province(province)
validate_province(province) == province \in Provinces

\* mutant: the endpoint purges the first district of the province only
EndpointFirstDistrict(province, districts) ==
    IF districts = <<>> THEN <<PROVINCES(province)[1]>> ELSE districts

\* "if not districts: districts = list(PROVINCES.get(province, {}).keys())"
EndpointDistricts(province, districts) ==
    IF districts = <<>> THEN PROVINCES(province) ELSE districts

\* POST /purge_cache with a JSON body of province, districts (or none) and
\* forecast_days: one call of purge_cache_db, and the response
PurgeEndpoint ==
    \E province \in {"PUNJAB", "NOWHERE"}, districts \in PurgeLists,
       days \in Horizons, dbok \in BOOLEAN :
        IF ~validate_province(province)
        THEN /\ last' = [NoCall EXCEPT !.op = "endpoint",
                            !.key = <<province, districts, days>>,
                            !.val = <<>>,
                            !.ret = <<"error", 400>>]
             /\ UNCHANGED <<weather, alerts, now, tz, pipeVars>>
        ELSE LET out == purge_cache_db(alerts, weather, province,
                            Range(EndpointDistricts(province, districts)), days, dbok)
             IN  /\ alerts' = out.alerts
                 /\ weather' = out.weather
                 /\ last' = [NoCall EXCEPT !.op = "endpoint",
                                !.key = <<province, districts, days>>,
                                !.dbok = dbok,
                                !.val = <<out.count>>,
                                !.ret = <<"success", 200, out.count>>]
                 /\ UNCHANGED <<now, tz, pipeVars>>

\* mutant: the cleanup spares the rows that expire at this very instant
ExpiredStrictly(rows, t) == {r \in rows : r.expires_at < t}

\* WHERE expires_at <= CURRENT_TIMESTAMP
Expired(rows, t) == {r \in rows : r.expires_at <= t}

\* cleanup_expired_cache: both DELETEs in one transaction, and the count
cleanup_expired_cache(a, w, t, dbok) ==
    [alerts  |-> get_db_connection(dbok, a \ Expired(a, t), a),
     weather |-> get_db_connection(dbok, w \ Expired(w, t), w),
     count   |-> IF dbok
                 THEN Cardinality(Expired(w, t)) + Cardinality(Expired(a, t))
                 ELSE 0]

CleanupCall ==
    \E dbok \in BOOLEAN :
        LET out == cleanup_expired_cache(alerts, weather, now, dbok)
        IN  /\ alerts' = out.alerts
            /\ weather' = out.weather
            /\ last' = [NoCall EXCEPT !.op = "cleanup", !.dbok = dbok,
                                      !.ret = <<out.count>>]
            /\ UNCHANGED <<now, tz, pipeVars>>

NextMaint ==
    \/ MaintTick
    \/ MaintSaveAlert
    \/ MaintSetWeather
    \/ PurgeCall
    \/ PurgeEndpoint
    \/ CleanupCall

SpecMaint == InitMaint /\ [][NextMaint]_vars

(***************************************************************************)
(* Claims on purge and cleanup, under SpecMaint                            *)
(***************************************************************************)
\* the alert rows of a province and horizon
RegionRows(a, province, days) ==
    {r \in a : r.province = province /\ r.forecast_days = days}

\* C13: purge(region, [], horizon) on the store, when its transaction commits,
\* deletes every alert row of the region and horizon, of whatever location,
\* leaves the alert rows of every other region or horizon as they were, and
\* returns the number of alert rows it deleted; when the transaction fails it
\* deletes nothing and returns 0.
C13_PurgeAllOfRegion ==
    [][(last'.op = "purge" /\ last'.key[2] = <<>>) =>
          /\ last'.ret = <<Cardinality(alerts \ alerts')>>
          /\ alerts' \subseteq alerts
          /\ IF last'.dbok
             THEN alerts' = alerts \ RegionRows(alerts, last'.key[1], last'.key[3])
             ELSE alerts' = alerts]_vars

\* C13 witness: purge("PUNJAB", [], 1) has removed the rows of two locations
\* and returned 2; rows of the other horizon and of the other region are there.
C13_Witness ==
    /\ last.op = "purge" /\ last.dbok
    /\ last.key = <<"PUNJAB", <<>>, 1>>
    /\ last.ret = <<2>>
    /\ RegionRows(alerts, "PUNJAB", 1) = {}
    /\ RegionRows(alerts, "PUNJAB", 3) # {}
    /\ RegionRows(alerts, "SINDH", 1) # {}

\* C14: purge(region, [loc], horizon), when its transaction commits, deletes
\* the alert row of (region, loc, horizon) if there is one and no other alert
\* row, and returns the number of alert rows deleted (1 or 0); when the
\* transaction fails it deletes nothing and returns 0.
C14_PurgeOneLocation ==
    [][(last'.op = "purge" /\ Len(last'.key[2]) = 1) =>
          /\ last'.ret = <<Cardinality(alerts \ alerts')>>
          /\ alerts' \subseteq alerts
          /\ IF last'.dbok
             THEN alerts' = {r \in alerts :
                     AlertKey(r) # <<last'.key[1], last'.key[2][1], last'.key[3]>>}
             ELSE alerts' = alerts]_vars

\* C14 witness: purge("PUNJAB", ["LAHORE"], 1) removed LAHORE's row and
\* returned 1; MULTAN's row, the row of horizon 3 and SINDH's row are there.
C14_Witness ==
    /\ last.op = "purge" /\ last.dbok
    /\ last.key = <<"PUNJAB", <<"LAHORE">>, 1>>
    /\ last.ret = <<1>>
    /\ {AlertKey(r) : r \in alerts} = MaintAlertKeys \ {<<"PUNJAB", "LAHORE", 1>>}

\* C15: a purge request with an empty (or omitted) districts list for a valid
\* province calls purge_cache_db once and answers success with purged_count
\* the count that call returned; when the purge committed, no alert row of
\* (province, *, forecast_days) is left and the count is the number of rows
\* removed, and alert rows of other provinces or horizons are as before.
C15_EndpointPurgesAll ==
    [][(last'.op = "endpoint" /\ last'.key[2] = <<>> /\ validate_province(last'.key[1])) =>
          /\ Len(last'.val) = 1
          /\ last'.ret = <<"success", 200, last'.val[1]>>
          /\ last'.val[1] = Cardinality(alerts \ alerts')
          /\ alerts' = IF last'.dbok
                       THEN alerts \ RegionRows(alerts, last'.key[1], last'.key[3])
                       ELSE alerts]_vars

\* C15 witness: the request for PUNJAB, horizon 1, without districts removed
\* the rows of both locations and reported purged_count 2.
C15_Witness ==
    /\ last.op = "endpoint" /\ last.dbok
    /\ last.key = <<"PUNJAB", <<>>, 1>>
    /\ last.ret = <<"success", 200, 2>>
    /\ RegionRows(alerts, "PUNJAB", 1) = {}
    /\ RegionRows(alerts, "PUNJAB", 3) # {}

\* C16: cleanup_expired, when its transaction commits, deletes every row of
\* both tables with expires_at <= now, leaves every row with expires_at > now
\* as it was, and returns the number of rows deleted in the two tables
\* together; when the transaction fails it deletes nothing and returns 0.
C16_CleanupExpired ==
    [][last'.op = "cleanup" =>
          /\ last'.ret = <<Cardinality(alerts \ alerts') + Cardinality(weather \ weather')>>
          /\ IF last'.dbok
             THEN /\ alerts' = {r \in alerts : r.expires_at > now}
                  /\ weather' = {r \in weather : r.expires_at > now}
             ELSE alerts' = alerts /\ weather' = weather]_vars

\* C16 witness: a cleanup removed more rows than there are alert keys without
\* a row now, so it removed a row of weather_cache and a row of alerts, and it
\* left a live alert row.
C16_Witness ==
    /\ last.op = "cleanup" /\ last.dbok
    /\ last.ret[1] >= 2
    /\ last.ret[1] > Cardinality(MaintAlertKeys) - Cardinality(alerts)
    /\ \E r \in alerts : r.expires_at > now

(***************************************************************************)
(* The store on its own: single calls on alerts, with the clock            *)
(***************************************************************************)
AlertTuples == {<<"PUNJAB", d, 3>> : d \in Districts}

\* the lists of (province, district, days) a caller passes
TupleLists == UNION {[1..n -> AlertTuples] : n \in 0..MaxTuples}

InitAlerts ==
    /\ weather = {}
    /\ alerts = {}
    /\ now = 0
    /\ tz \in TzOffsets
    /\ last = NoCall
    /\ PipeIdle

\* save_alert(province, district, forecast_days, alert_text)
AlertSave ==
    \E k \in AlertTuples, text \in Values, dbok \in BOOLEAN :
        /\ alerts' = save_alert(alerts, k[1], k[2], k[3], text, now, tz, dbok)
        /\ last' = [NoCall EXCEPT !.op = "save_alert", !.key = k,
                                  !.val = <<text>>, !.dbok = dbok]
        /\ UNCHANGED <<weather, now, tz>>
        /\ UNCHANGED pipeVars

\* get_alerts_batch(list)
AlertsBatch ==
    \E tuples \in TupleLists, dbok \in BOOLEAN, tuple_syntax \in BOOLEAN :
        /\ last' = [NoCall EXCEPT !.op = "alerts_batch", !.key = tuples,
                        !.val = <<tuple_syntax>>, !.dbok = dbok,
                        !.ret = get_alerts_batch(alerts, tuples, now, dbok, tuple_syntax)]
        /\ UNCHANGED <<weather, alerts, now, tz>>
        /\ UNCHANGED pipeVars

NextAlerts ==
    \/ Tick
    \/ AlertSave
    \/ AlertsBatch

SpecAlerts == InitAlerts /\ [][NextAlerts]_vars

\* C9: the OR-chain fallback of get_alerts_batch returns the same mapping as
\* the tuple-IN query, for every list and table.
C9_FallbackSameAsTupleIn ==
    (last.op = "alerts_batch" /\ last.dbok /\ last.val = <<FALSE>>)
        => last.ret = get_alerts_batch(alerts, last.key, now, TRUE, TRUE)

(***************************************************************************)
(* The thread pool of get_bulk_weather_data: ThreadPoolExecutor(15), one   *)
(* future per uncached district, consumed with as_completed                *)
(***************************************************************************)
\* ThreadPoolExecutor(max_workers=15)
max_workers == 15

\* the largest number of uncached districts of a call
MaxMisses == 17

\* the pool of one call with n uncached districts; the work queue is first
\* in first out, so the futures dispatched are the first
\* submitted - work_queue of uncached
PoolLocals(n) ==
    [pc |-> IF n = 0 THEN "returned" ELSE "submit", uncached |-> n,
     submitted |-> 0, threads |-> 0, work_queue |-> 0, running |-> 0,
     finished |-> 0, handled |-> 0]

\* the call has gone through its loop over districts with n keys uncached:
\* "if not uncached: return cached_data", else the pool is created
InitPool ==
    /\ weather = {}
    /\ alerts = {}
    /\ now = 0
    /\ tz = 0
    /\ last = NoCall
    /\ \E n \in 0..MaxMisses : th = [p \in Resolvers |-> PoolLocals(n)]
    /\ hist = [p \in Resolvers |-> NoHist]
    /\ tasks = <<>>
    /\ task_results = <<>>
    /\ task_errors = <<>>
    /\ response = [p \in Resolvers |-> None]

\* mutant: submit starts a new worker thread for every work item
SpawnsThreadAlways(threads) == TRUE

\* executor.submit starts a worker thread only while the pool has fewer than
\* max_workers of them
SpawnsThread(threads) == threads < max_workers

\* the misses of the call whose fetch has been started by a worker
Dispatched(locals) == locals.submitted - locals.work_queue

\* executor.submit(fetch_single_district, info), in the dict comprehension
\* over uncached: the work item is queued, a worker may be started
PoolSubmit(p) ==
    /\ th[p].pc = "submit"
    /\ th' = [th EXCEPT ![p] = [@ EXCEPT
                !.submitted = @ + 1,
                !.work_queue = @ + 1,
                !.threads = IF SpawnsThread(@) THEN @ + 1 ELSE @,
                !.pc = IF th[p].submitted + 1 = th[p].uncached
                       THEN "as_completed" ELSE "submit"]]
    /\ UNCHANGED <<weather, alerts, now, tz, last, hist, taskVars, response>>

\* a worker thread that runs no work item takes the next one from the queue
\* and calls fetch_single_district: session.get is in flight
PoolDispatch(p) ==
    /\ th[p].work_queue > 0
    /\ th[p].running < th[p].threads
    /\ th' = [th EXCEPT ![p] = [@ EXCEPT !.work_queue = @ - 1, !.running = @ + 1]]
    /\ UNCHANGED <<weather, alerts, now, tz, last, hist, taskVars, response>>

\* fetch_single_district returns its tuple (data or error): the future is
\* done, the worker is free again
PoolFetchReturns(p) ==
    /\ th[p].running > 0
    /\ th' = [th EXCEPT ![p] = [@ EXCEPT !.running = @ - 1, !.finished = @ + 1]]
    /\ UNCHANGED <<weather, alerts, now, tz, last, hist, taskVars, response>>

\* "for future in as_completed(futures)": the main thread handles one done
\* future; after the last one the with-block ends and the call returns
PoolAsCompleted(p) ==
    /\ th[p].pc = "as_completed"
    /\ th[p].handled < th[p].finished
    /\ th' = [th EXCEPT ![p] = [@ EXCEPT
                !.handled = @ + 1,
                !.pc = IF th[p].handled + 1 = th[p].uncached
                       THEN "returned" ELSE "as_completed"]]
    /\ UNCHANGED <<weather, alerts, now, tz, last, hist, taskVars, response>>

NextPool ==
    \E p \in Resolvers :
        \/ PoolSubmit(p)
        \/ PoolDispatch(p)
        \/ PoolFetchReturns(p)
        \/ PoolAsCompleted(p)

\* the main thread and the workers go on running, and session.get returns
\* (timeout=Config.API_TIMEOUT, Retry(total=3))
SpecPool ==
    /\ InitPool
    /\ [][NextPool]_vars
    /\ \A p \in Resolvers :
        /\ WF_vars(PoolSubmit(p))
        /\ WF_vars(PoolDispatch(p))
        /\ WF_vars(PoolFetchReturns(p))
        /\ WF_vars(PoolAsCompleted(p))

\* C21: within one call at most 15 fetches are in flight at any time,
\* whatever the number of misses, and every miss is dispatched in the end,
\* also when there are more than 15 of them.
C21_AtMostFifteenInFlight ==
    /\ [](\A p \in Resolvers : th[p].running <= 15)
    /\ \A p \in Resolvers : <>(Dispatched(th[p]) = th[p].uncached)

\* C21 witness: a call with more than 15 misses has handed every miss to a
\* worker, and 15 fetches are in flight.
C21_Witness ==
    \E p \in Resolvers :
        /\ th[p].uncached > 15
        /\ Dispatched(th[p]) = th[p].uncached
        /\ th[p].running = 15

(***************************************************************************)
(* Further claims on resolve, under SpecResolve                            *)
(***************************************************************************)
\* C22: when resolve returns, every key it fetched has a store row holding
\* the payload of the result, written with the ttl passed to resolve: its
\* expires_at is its write time plus that ttl.  Stated for a host whose
\* local time is UTC and for writes that reached the database.
C22_WriteBackWithCallTtl ==
    tz = 0 =>
        \A p \in Resolvers :
            th[p].pc = "returned" =>
                \A d \in th[p].fetched :
                    \A r \in weather :
                        (/\ r.cache_key = WeatherKey(ResolveDays, "PUNJAB", d)
                         /\ r.data = JsonDumps(th[p].result[1][d]))
                            => r.expires_at = r.created_at + th[p].cache_time

(***************************************************************************)
(* The background task manager on its own: run_task called by several      *)
(* request handlers, the wrapper threads, and cleanup_old_results           *)
(***************************************************************************)
\* the request handlers that call run_task, one call at a time each; a call
\* starts a thread of its own, named after its caller
Callers == {"c1", "c2"}

\* the task_id the caller supplies: f"alerts_{province}_{forecast_days}_
\* {time.time()}" is the same for two requests that read the same clock value
TaskIds == {"t1", "t2"}

\* what func(*args, **kwargs) does: it returns a value, returns None, raises
\* an Exception, or never returns
Units == {"returns", "returns_none", "raises", "hangs"}

\* the value a unit of work returns, and str(e) of what it raises
UnitResult == <<"result">>
UnitError == <<"error">>

\* call is the position of the caller in run_task, pc that of the thread
TaskIdle == [pc |-> "idle", call |-> "idle", tid |-> None, unit |-> None]

InitTasks ==
    /\ weather = {}
    /\ alerts = {}
    /\ now = 0
    /\ tz = 0
    /\ last = NoCall
    /\ th = [c \in Callers |-> TaskIdle]
    /\ hist = [c \in Callers |-> NoHist]
    /\ tasks = <<>>
    /\ task_results = <<>>
    /\ task_errors = <<>>
    /\ response = [c \in Callers |-> None]

\* run_task: thread = Thread(target=wrapper); self.tasks[task_id] = thread;
\* thread.start()
RunTask(c) ==
    /\ th[c].call = "idle"
    /\ \E tid \in TaskIds, unit \in Units :
        /\ tasks' = Put(tasks, tid, c)
        /\ th' = [th EXCEPT ![c] = [pc |-> "running", call |-> "run_task",
                                    tid |-> tid, unit |-> unit]]
    /\ UNCHANGED <<weather, alerts, now, tz, last, hist, task_results,
                   task_errors, response>>

\* mutant: run_task joins the thread before it returns
RunTaskJoins(c) ==
    /\ th[c].call = "run_task"
    /\ th[c].pc = "done"
    /\ th' = [th EXCEPT ![c].call = "returned"]
    /\ response' = [response EXCEPT ![c] = <<"processing", th[c].tid>>]
    /\ UNCHANGED <<weather, alerts, now, tz, last, hist, taskVars>>

\* run_task returns after thread.start(); generate_alerts answers
\* "processing" with the task_id
RunTaskReturns(c) ==
    /\ th[c].call = "run_task"
    /\ th' = [th EXCEPT ![c].call = "returned"]
    /\ response' = [response EXCEPT ![c] = <<"processing", th[c].tid>>]
    /\ UNCHANGED <<weather, alerts, now, tz, last, hist, taskVars>>

\* mutant: the wrapper lets the exception of the unit of work go by
wrapper_without_except(results, errors, tid, unit) ==
    [task_results |-> CASE unit = "returns" -> Put(results, tid, UnitResult)
                        [] unit = "returns_none" -> Put(results, tid, None)
                        [] OTHER -> results,
     task_errors |-> errors]

\* mutant: the wrapper forgets the value the unit of work returned
wrapper_without_result(results, errors, tid, unit) ==
    [task_results |-> results,
     task_errors |-> IF unit = "raises" THEN Put(errors, tid, UnitError)
                     ELSE errors]

\* the try and except of wrapper: self.task_results[task_id] = result, or
\* self.task_errors[task_id] = str(e)
wrapper(results, errors, tid, unit) ==
    [task_results |-> CASE unit = "returns" -> Put(results, tid, UnitResult)
                        [] unit = "returns_none" -> Put(results, tid, None)
                        [] OTHER -> results,
     task_errors |-> IF unit = "raises" THEN Put(errors, tid, UnitError)
                     ELSE errors]

\* the unit of work of call c ends and the wrapper records its outcome
TaskRecord(c) ==
    /\ th[c].pc = "running"
    /\ th[c].unit # "hangs"
    /\ LET out == wrapper(task_results, task_errors, th[c].tid, th[c].unit)
       IN  /\ task_results' = out.task_results
           /\ task_errors' = out.task_errors
    /\ th' = [th EXCEPT ![c].pc = "finally"]
    /\ UNCHANGED <<weather, alerts, now, tz, last, hist, tasks, response>>

\* the finally of wrapper: "if task_id in self.tasks: del self.tasks[task_id]",
\* and the thread ends
TaskFinally(c) ==
    /\ th[c].pc = "finally"
    /\ tasks' = IF th[c].tid \in DOMAIN tasks THEN Del(tasks, th[c].tid) ELSE tasks
    /\ th' = [th EXCEPT ![c].pc = "done"]
    /\ UNCHANGED <<weather, alerts, now, tz, last, hist, task_results,
                   task_errors, response>>

\* the handler of a request whose thread has ended takes the next request
NextRequest(c) ==
    /\ th[c].call = "returned"
    /\ th[c].pc = "done"
    /\ th' = [th EXCEPT ![c] = TaskIdle]
    /\ response' = [response EXCEPT ![c] = None]
    /\ UNCHANGED <<weather, alerts, now, tz, last, hist, taskVars>>

\* cleanup_old_results: for every tid of task_results that is not running,
\* del task_results[tid] and, if present, del task_errors[tid]
cleanup_old_results(results, errors) ==
    LET completed_tasks == {tid \in DOMAIN results : ~is_running(tid)} IN
    [task_results |-> [tid \in DOMAIN results \ completed_tasks |-> results[tid]],
     task_errors |-> [tid \in DOMAIN errors \ completed_tasks |-> errors[tid]]]

CleanupOldResults ==
    LET out == cleanup_old_results(task_results, task_errors) IN
    /\ task_results' = out.task_results
    /\ task_errors' = out.task_errors
    /\ UNCHANGED <<weather, alerts, now, tz, last, th, hist, tasks, response>>

NextTasks ==
    \/ CleanupOldResults
    \/ \E c \in Callers :
        \/ RunTask(c)
        \/ RunTaskReturns(c)
        \/ TaskRecord(c)
        \/ TaskFinally(c)
        \/ NextRequest(c)

\* the caller of run_task and the threads go on running; a unit of work that
\* hangs has no step to take
SpecTasks ==
    /\ InitTasks
    /\ [][NextTasks]_vars
    /\ \A c \in Callers :
        /\ WF_vars(RunTaskReturns(c))
        /\ WF_vars(TaskRecord(c))
        /\ WF_vars(TaskFinally(c))

HasResult(tid) == tid \in DOMAIN task_results
HasError(tid) == tid \in DOMAIN task_errors

\* C24: when a task completes, exactly one of result and error is recorded
\* under its task id, the finally block takes the task out of the running
\* set, so that is_running is false, and leaves the recorded result or error
\* in place; and no task id ever has both a result and an error.
C24_ExactlyOneOfResultAndError ==
    /\ [](\A tid \in TaskIds : ~(HasResult(tid) /\ HasError(tid)))
    /\ [][\A c \in Callers :
            (th[c].pc = "finally" /\ th'[c].pc = "done")
                => /\ HasResult(th[c].tid)' # HasError(th[c].tid)'
                   /\ ~is_running(th[c].tid)'
                   /\ task_results' = task_results
                   /\ task_errors' = task_errors]_vars

\* C25: an exception raised inside a unit of work is caught by the wrapper
\* and recorded as the error of its task id; the step changes nothing for the
\* caller of run_task, for the responses, or for any other thread and its
\* bookkeeping, and a handler that is idle can always schedule a task.
C25_ExceptionIsRecordedNotRaised ==
    /\ [][\A c \in Callers :
            (th[c].pc = "running" /\ th[c].unit = "raises" /\ th'[c].pc # "running")
                => /\ th'[c] = [th[c] EXCEPT !.pc = "finally"]
                   /\ get_error(th[c].tid)' = UnitError
                   /\ \A d \in Callers \ {c} : th'[d] = th[d]
                   /\ response' = response
                   /\ tasks' = tasks
                   /\ task_results' = task_results
                   /\ \A tid \in DOMAIN task_errors \ {th[c].tid} :
                        HasError(tid)' /\ task_errors'[tid] = task_errors[tid]]_vars
    /\ [](\A c \in Callers : th[c].call = "idle" => ENABLED RunTask(c))

\* C25 witness: the unit of work of one task raised and its error is
\* recorded; the call that scheduled it has returned, the other handler's
\* task, scheduled under another id, is running.
C25_Witness ==
    \E c \in Callers, d \in Callers :
        /\ th[c].unit = "raises"
        /\ th[c].pc = "done"
        /\ th[c].call = "returned"
        /\ get_error(th[c].tid) = UnitError
        /\ th[d].pc = "running"
        /\ th[d].tid # th[c].tid
        /\ is_running(th[d].tid)

\* C26: a result or an error, once recorded, keeps its value and is never
\* removed, and a task id that has one and is not running is never running
\* again.
C26_TerminalOnceAndForAll ==
    [][\A tid \in TaskIds :
        /\ HasResult(tid) => (HasResult(tid)' /\ task_results'[tid] = task_results[tid])
        /\ HasError(tid) => (HasError(tid)' /\ task_errors'[tid] = task_errors[tid])
        /\ ((HasResult(tid) \/ HasError(tid)) /\ ~is_running(tid))
              => ~is_running(tid)']_vars

\* C36: is_running(task_id) is true in every state where a unit of work
\* scheduled under task_id has started and has not finished, also when the
\* task id was scheduled more than once and one of its runs has ended.
C36_RunningWhileUnitRuns ==
    \A c \in Callers : th[c].pc = "running" => is_running(th[c].tid)

\* C37: whenever run_task has returned for a task and is_running of its id is
\* false, get_result or get_error of the id returns a value that is not
\* None, whatever the unit of work returns.
C37_PollerSeesTheEnd ==
    \A c \in Callers :
        (th[c].call = "returned" /\ ~is_running(th[c].tid))
            => (get_result(th[c].tid) # None \/ get_error(th[c].tid) # None)

\* C38: every task scheduled whose unit of work returns or raises reaches a
\* state where is_running of its id is false and a result or an error is
\* recorded under the id, with one or with several tasks at a time.
C38_FinishingTaskEnds ==
    \A c \in Callers, tid \in TaskIds :
        (th[c].pc = "running" /\ th[c].tid = tid /\ th[c].unit # "hangs")
            ~> (~is_running(tid) /\ (HasResult(tid) \/ HasError(tid)))

\* C38 witness: two tasks were scheduled under different ids; the one whose
\* unit returned None has ended with its result recorded, the one whose unit
\* raised with its error.
C38_Witness ==
    \E c \in Callers, d \in Callers :
        /\ th[c].pc = "done" /\ th[c].unit = "returns_none"
        /\ th[d].pc = "done" /\ th[d].unit = "raises"
        /\ th[c].tid # th[d].tid
        /\ ~is_running(th[c].tid) /\ HasResult(th[c].tid)
        /\ ~is_running(th[d].tid) /\ HasError(th[d].tid)

(***************************************************************************)
(* The store under failure, and the single-location lookup of              *)
(* WeatherService: store calls one at a time on tables the calls filled    *)
(***************************************************************************)
\* mutant: the lookup fetches from the upstream API when the cache has nothing
get_weather_forecast_fetching(w, province, district, days, t, dbok) ==
    LET cache_key == WeatherKey(days, province, district)
        cache_result == get_raw_weather_cache(w, cache_key, t, dbok)
    IN  [value |-> IF cache_result # None THEN <<cache_result[1]>>
                   ELSE <<FetchedData(district, t)>>,
         store_lookups |-> <<cache_key>>,
         api_calls |-> IF cache_result # None THEN <<>> ELSE <<cache_key>>]

\* WeatherService.get_weather_forecast(province, district, days): the value
\* returned, the keys looked up in the store and the calls of the upstream API
get_weather_forecast(w, province, district, days, t, dbok) ==
    LET cache_key == WeatherKey(days, province, district)
        cache_result == get_raw_weather_cache(w, cache_key, t, dbok)
    IN  [value |-> IF cache_result # None THEN <<cache_result[1]>> ELSE None,
         store_lookups |-> <<cache_key>>,
         api_calls |-> <<>>]

InitStore ==
    /\ weather = {}
    /\ alerts = {}
    /\ now = 0
    /\ tz = 0
    /\ last = NoCall
    /\ PipeIdle

\* the province and horizon of the calls, and the one payload and alert text
StoreProvince == "PUNJAB"
StoreDays == 3
StoreValue == "a"

\* set_raw_weather_cache(cache_key, data), as in the write-back of resolve
StoreSet ==
    \E d \in Districts, dbok \in BOOLEAN :
        /\ weather' = set_raw_weather_cache(weather,
                          WeatherKey(StoreDays, StoreProvince, d), StoreValue,
                          now, tz, dbok)
        /\ last' = [NoCall EXCEPT !.op = "set", !.key = <<d>>, !.dbok = dbok]
        /\ UNCHANGED <<alerts, now, tz, pipeVars>>

\* get_raw_weather_cache(cache_key)
StoreGet ==
    \E d \in Districts, dbok \in BOOLEAN :
        LET k == WeatherKey(StoreDays, StoreProvince, d) IN
        /\ weather' = get_raw_weather_cache_table(weather, k, now, dbok)
        /\ last' = [NoCall EXCEPT !.op = "get", !.key = <<d>>, !.dbok = dbok,
                        !.ret = get_raw_weather_cache(weather, k, now, dbok)]
        /\ UNCHANGED <<alerts, now, tz, pipeVars>>

\* get_raw_weather_cache_batch(cache_keys) over the keys of all districts
StoreGetBatch ==
    \E dbok \in BOOLEAN :
        /\ last' = [NoCall EXCEPT !.op = "get_batch", !.dbok = dbok,
                        !.ret = get_raw_weather_cache_batch(weather,
                                    {WeatherKey(StoreDays, StoreProvince, d) : d \in Districts},
                                    now, dbok)]
        /\ UNCHANGED <<weather, alerts, now, tz, pipeVars>>

\* get_alerts_batch(list) over the tuples of all districts
StoreAlertsBatch ==
    \E dbok \in BOOLEAN :
        /\ last' = [NoCall EXCEPT !.op = "alerts_batch", !.dbok = dbok,
                        !.ret = get_alerts_batch(alerts,
                                    <<<<StoreProvince, "LAHORE", StoreDays>>,
                                      <<StoreProvince, "MULTAN", StoreDays>>>>,
                                    now, dbok, TRUE)]
        /\ UNCHANGED <<weather, alerts, now, tz, pipeVars>>

\* save_alert(province, district, forecast_days, alert_text)
StoreSaveAlert ==
    \E d \in Districts, dbok \in BOOLEAN :
        /\ alerts' = save_alert(alerts, StoreProvince, d, StoreDays, StoreValue,
                                now, tz, dbok)
        /\ last' = [NoCall EXCEPT !.op = "save_alert", !.key = <<d>>, !.dbok = dbok]
        /\ UNCHANGED <<weather, now, tz, pipeVars>>

\* purge_cache_db(province, districts, forecast_days)
StorePurge ==
    \E districts \in PurgeLists, dbok \in BOOLEAN :
        LET out == purge_cache_db(alerts, weather, StoreProvince, Range(districts),
                                  StoreDays, dbok)
        IN  /\ alerts' = out.alerts
            /\ weather' = out.weather
            /\ last' = [NoCall EXCEPT !.op = "purge", !.key = districts,
                            !.dbok = dbok, !.ret = <<out.count>>]
            /\ UNCHANGED <<now, tz, pipeVars>>

\* get_weather_forecast(province, district, days)
ForecastCall ==
    \E d \in Districts, dbok \in BOOLEAN :
        LET out == get_weather_forecast(weather, StoreProvince, d, StoreDays, now, dbok)
        IN  /\ last' = [NoCall EXCEPT !.op = "forecast", !.key = <<d>>,
                            !.dbok = dbok,
                            !.val = <<out.store_lookups, out.api_calls>>,
                            !.ret = out.value]
            /\ UNCHANGED <<weather, alerts, now, tz, pipeVars>>

NextStore ==
    \/ MaintTick
    \/ StoreSet
    \/ StoreGet
    \/ StoreGetBatch
    \/ StoreAlertsBatch
    \/ StoreSaveAlert
    \/ StorePurge
    \/ CleanupCall
    \/ CorruptRow
    \/ ForecastCall

SpecStore == InitStore /\ [][NextStore]_vars

(***************************************************************************)
(* Claims on the failing store and the lookup, under SpecStore             *)
(***************************************************************************)
\* what a store operation returns when the store is unavailable
ReturnedOnFailure(op) ==
    IF op \in {"purge", "cleanup"} THEN <<0>> ELSE None

\* C27: a store call made while the store is unavailable returns normally:
\* a single read or the lookup returns None, a batch read the empty mapping,
\* set and save_alert nothing, purge and cleanup 0, and the failed
\* transaction is rolled back: both tables are as before the call.
C27_StoreFailureIsSwallowed ==
    [][(/\ last'.op \in {"set", "get", "get_batch", "alerts_batch", "save_alert",
                         "purge", "cleanup", "forecast"}
        /\ ~last'.dbok)
            => /\ weather' = weather
               /\ alerts' = alerts
               /\ last'.ret = ReturnedOnFailure(last'.op)]_vars

\* C27 witness: a purge of LAHORE failed while LAHORE had an alert row and a
\* cached forecast: it returned 0 and the rows are there.
C27_Witness ==
    /\ last.op = "purge"
    /\ ~last.dbok
    /\ last.key = <<"LAHORE">>
    /\ last.ret = <<0>>
    /\ \E r \in alerts : AlertKey(r) = <<StoreProvince, "LAHORE", StoreDays>>
    /\ \E r \in weather : r.cache_key = WeatherKey(StoreDays, StoreProvince, "LAHORE")

\* C29: get_weather_forecast makes one store lookup, of the key
\* weather_{days}_{province}_{sanitized district}, and no call of the upstream
\* API; it returns the payload of the entry when the store returns a live
\* entry for that key, and None otherwise.
C29_ForecastLookupIsCacheOnly ==
    last.op = "forecast" =>
        LET k == WeatherKey(StoreDays, StoreProvince, sanitize_filename(last.key[1]))
            live == {r \in weather : /\ r.cache_key = k
                                     /\ r.expires_at > now
                                     /\ IsJson(r.data)}
        IN  /\ last.val = <<<<k>>, <<>>>>
            /\ (last.dbok /\ live # {})
                  => \E r \in live : last.ret = <<JsonLoads(r.data)>>
            /\ ~(last.dbok /\ live # {}) => last.ret = None

\* C29 witness: the lookup of a district with a live entry returned its
\* payload, while the other district, whose entry has expired, has none.
C29_Witness ==
    /\ last.op = "forecast"
    /\ last.ret = <<StoreValue>>
    /\ \E r \in weather : r.expires_at <= now
    /\ get_weather_forecast(weather, StoreProvince,
            CHOOSE d \in Districts : d # last.key[1], StoreDays, now, TRUE).value = None

\* C30: after purge(province, [district], days) has returned, the store has
\* no row under weather_{days}_{province}_{district}.
C30_PurgeRemovesWeatherRows ==
    (last.op = "purge" /\ last.dbok) =>
        \A d \in Range(last.key) :
            ~\E r \in weather : r.cache_key = WeatherKey(StoreDays, StoreProvince, d)

(***************************************************************************)
(* Regenerations one after the other for one district: the fetch, the      *)
(* frame built by create_weather_dataframe, the generator, purge and save  *)
(***************************************************************************)
MaxFrameClock == 2

\* the district, province and horizon of the requests
FrameDistrict == "LAHORE"
FrameProvince == "PUNJAB"
FrameDays == 1

\* what the upstream API answers at time t: the forecast changes with time
ForecastAt(t) == <<"forecast", "daily", t>>

\* the locals of a route: the payload fetched, the frame handed to the
\* generator
FrameIdle == [pc |-> "idle", mode |-> "task", data |-> None, forecasts |-> None]

InitFrames ==
    /\ weather = {}
    /\ alerts = {}
    /\ now = 0
    /\ tz = 0
    /\ last = NoCall
    /\ th = [p \in Resolvers |-> FrameIdle]
    /\ hist = [p \in Resolvers |-> NoHist]
    /\ tasks = <<>>
    /\ task_results = <<>>
    /\ task_errors = <<>>
    /\ response = [p \in Resolvers |-> None]

\* f"alerts_{province}_{forecast_days}_{d}" in generate_alerts_task,
\* f"combined_{province}_{forecast_days}_{d}" in generate_forecast_and_alerts
RouteFrameKey(mode) ==
    IF mode = "task" THEN AlertsFrameKey(FrameProvince, FrameDays, FrameDistrict)
    ELSE CombinedFrameKey(FrameProvince, FrameDays, FrameDistrict)

\* create_weather_dataframe(daily, cache_key): the frame returned and the
\* table afterwards; a cached frame is returned as it is, else the frame is
\* built from daily and cached
create_weather_dataframe(w, daily, cache_key, t, off, dbok_get, dbok_set) ==
    LET cached_df == get_weather_cache(w, cache_key, t, dbok_get)
        w1 == get_weather_cache_table(w, cache_key, t, dbok_get)
    IN  IF cached_df # None
        THEN [df |-> cached_df[1], weather |-> w1]
        ELSE [df |-> Frame(daily),
              weather |-> set_weather_cache(w1, cache_key, Frame(daily), t, off, dbok_set)]

\* a request arrives at one of the two routes
FrameStart(p) ==
    /\ th[p].pc \in {"idle", "done"}
    /\ \E m \in {"task", "sync"} :
        th' = [th EXCEPT ![p] = [FrameIdle EXCEPT !.pc = "fetch", !.mode = m]]
    /\ UNCHANGED <<weather, alerts, now, tz, last, hist, taskVars, response>>

\* get_bulk_weather_data(province, districts_to_fetch, forecast_days,
\* cache_time=0): no entry has an age below 0, the district is fetched and
\* written back; with no payload the route ends
FrameFetch(p) ==
    /\ th[p].pc = "fetch"
    /\ \/ /\ th' = [th EXCEPT ![p].pc = "done"]
          /\ UNCHANGED weather
       \/ \E dbok \in BOOLEAN :
            /\ weather' = set_raw_weather_cache(weather,
                              WeatherKey(FrameDays, FrameProvince, FrameDistrict),
                              ForecastAt(now), now, tz, dbok)
            /\ th' = [th EXCEPT ![p].pc = "transform", ![p].data = ForecastAt(now)]
    /\ UNCHANGED <<alerts, now, tz, last, hist, taskVars, response>>

\* the loop over weather_data.items(): forecasts[d] =
\* create_weather_dataframe(daily, cache_key)
FrameTransform(p) ==
    /\ th[p].pc = "transform"
    /\ \E dbok_get \in BOOLEAN, dbok_set \in BOOLEAN :
        LET out == create_weather_dataframe(weather, th[p].data,
                        RouteFrameKey(th[p].mode), now, tz, dbok_get, dbok_set)
        IN  /\ weather' = out.weather
            /\ th' = [th EXCEPT ![p].pc = "generate", ![p].forecasts = <<out.df>>]
    /\ UNCHANGED <<alerts, now, tz, last, hist, taskVars, response>>

\* alert_service.generate_alert(province, forecasts): it raises, which ends
\* the route, or returns the alert text
FrameGenerate(p) ==
    /\ th[p].pc = "generate"
    /\ \E raised \in BOOLEAN :
        th' = [th EXCEPT ![p].pc = IF raised THEN "done" ELSE "purge"]
    /\ UNCHANGED <<weather, alerts, now, tz, last, hist, taskVars, response>>

\* alert_service.purge_cache(province, list(forecasts.keys()), forecast_days)
\* and save_district_alerts
FramePurgeAndSave(p) ==
    /\ th[p].pc = "purge"
    /\ \E dbok_purge \in BOOLEAN, dbok_save \in BOOLEAN :
        LET out == alert_service_purge_cache(alerts, weather, FrameProvince,
                        {FrameDistrict}, FrameDays, dbok_purge)
        IN  /\ weather' = out.weather
            /\ alerts' = save_alert(out.alerts, FrameProvince, FrameDistrict,
                                    FrameDays, <<"alert", th[p].forecasts[1]>>,
                                    now, tz, dbok_save)
    /\ th' = [th EXCEPT ![p].pc = "done"]
    /\ UNCHANGED <<now, tz, last, hist, taskVars, response>>

\* the clock
FrameTick ==
    /\ now < MaxFrameClock
    /\ now' = now + 1
    /\ UNCHANGED <<weather, alerts, tz, last, pipeVars>>

NextFrames ==
    \/ FrameTick
    \/ \E p \in Resolvers :
        \/ FrameStart(p)
        \/ FrameFetch(p)
        \/ FrameTransform(p)
        \/ FrameGenerate(p)
        \/ FramePurgeAndSave(p)

SpecFrames == InitFrames /\ [][NextFrames]_vars

\* C31: in every regeneration the frame handed to the alert generator for a
\* district is the frame of the payload the fetch step of that regeneration
\* returned for it.
C31_GeneratorInputIsFreshPayload ==
    \A p \in Resolvers :
        th[p].forecasts # None => th[p].forecasts[1] = Frame(th[p].data)

\* ---------------------------------------------------------------------
\* One dispatched fetch and the transport's retries (SpecFetch)
\* ---------------------------------------------------------------------

\* Retry(total=3, ...): the number of retries allowed after the first attempt
RetryTotal == 3

\* status_forcelist=[500, 502, 503, 504]
status_forcelist == {500, 502, 503, 504}

\* the statuses for which the transport honours a Retry-After header
RETRY_AFTER_STATUS_CODES == {413, 429, 503}

\* what the upstream can answer to one attempt: a response with a status and
\* with or without a Retry-After header, or no response within
\* timeout=Config.API_TIMEOUT (a connection error or a read timeout)
UpstreamStatuses == {200, 404, 429, 500, 502, 503, 504}
NoResponse == [status |-> 0, retry_after |-> FALSE]
UpstreamAnswers ==
    [status : UpstreamStatuses, retry_after : BOOLEAN] \cup {NoResponse}

FetchIdle == [pc |-> "idle", total |-> RetryTotal, answers |-> <<>>,
              data |-> None, error |-> None]

InitFetch ==
    /\ weather = {}
    /\ alerts = {}
    /\ now = 0
    /\ tz = 0
    /\ last = NoCall
    /\ th = [p \in Resolvers |-> FetchIdle]
    /\ hist = [p \in Resolvers |-> NoHist]
    /\ tasks = <<>>
    /\ task_results = <<>>
    /\ task_errors = <<>>
    /\ response = [p \in Resolvers |-> None]

\* Retry.is_retry(method, status_code, has_retry_after) for a GET
is_retry(total, answer) ==
    \/ answer.status \in status_forcelist
    \/ /\ total # 0
       /\ answer.retry_after
       /\ answer.status \in RETRY_AFTER_STATUS_CODES

\* Retry.increment and is_exhausted: the budget left after one more retry,
\* exhausted when it falls below zero
is_exhausted(total) == total - 1 < 0

\* the pool submits fetch_single_district for a miss
FetchDispatch(p) ==
    /\ th[p].pc \in {"idle", "done"}
    /\ th' = [th EXCEPT ![p] = [FetchIdle EXCEPT !.pc = "attempt"]]
    /\ UNCHANGED <<weather, alerts, now, tz, last, hist, taskVars, response>>

\* self.session.get(self.base_url, params=params, timeout=...): one HTTP
\* attempt through the mounted adapter. The transport sends the request; with
\* no response, or with a response is_retry accepts, it spends one retry and
\* sends again, and raises once the budget is spent; any other response is
\* handed to fetch_single_district, which keeps the payload of a 200 and the
\* message "HTTP <status>" otherwise
FetchAttempt(p) ==
    /\ th[p].pc = "attempt"
    /\ \E answer \in UpstreamAnswers :
        LET answers == Append(th[p].answers, answer)
            retry == answer = NoResponse \/ is_retry(th[p].total, answer)
        IN  th' = [th EXCEPT ![p] =
                IF retry /\ ~is_exhausted(th[p].total)
                THEN [@ EXCEPT !.total = @ - 1, !.answers = answers]
                ELSE IF retry
                THEN [@ EXCEPT !.pc = "done", !.total = @ - 1, !.answers = answers,
                               !.error = <<"MaxRetryError">>]
                ELSE IF answer.status = 200
                THEN [@ EXCEPT !.pc = "done", !.answers = answers,
                               !.data = <<"payload">>]
                ELSE [@ EXCEPT !.pc = "done", !.answers = answers,
                               !.error = <<"HTTP", answer.status>>]]
    /\ UNCHANGED <<weather, alerts, now, tz, last, hist, taskVars, response>>

NextFetch ==
    \E p \in Resolvers :
        \/ FetchDispatch(p)
        \/ FetchAttempt(p)

SpecFetch == InitFetch /\ [][NextFetch]_vars

\* C32: a dispatched fetch makes at most 3 HTTP attempts, every attempt but
\* the last was answered with one of the statuses 500, 502, 503 and 504, and
\* a response with any other status than 200 ends the fetch at the first
\* attempt with the key dropped.
C32_AtMostThreeAttempts ==
    \A p \in Resolvers :
        LET answers == th[p].answers
        IN  /\ Len(answers) <= 3
            /\ \A i \in 1..(Len(answers) - 1) :
                    answers[i].status \in status_forcelist
            /\ \A i \in 1..Len(answers) :
                    /\ answers[i] # NoResponse
                    /\ answers[i].status \notin status_forcelist \cup {200}
                    => /\ i = 1
                       /\ Len(answers) = 1
                       /\ th[p].pc = "done"
                       /\ th[p].data = None

(***************************************************************************)
(* The lifetime of a row and the host's offset, under SpecCache            *)
(***************************************************************************)
\* C33: whatever the offset of the host's local time from UTC, get returns a
\* row written at time t with the TTL T at every time in [t, t + T) and at no
\* time from t + T on, and the age resolve computes for the entry returned is
\* the time elapsed since it was written.
C33_LifetimeIndependentOfOffset ==
    (last.op = "get" /\ last.dbok) =>
        /\ last.ret # None <=>
              \E r \in weather :
                  /\ r.cache_key = last.key
                  /\ IsJson(r.data)
                  /\ now < r.created_at + CACHE_TIME
        /\ last.ret # None => Age(last.ret[2]) = now - last.ret[2]

(***************************************************************************)
(* A regeneration in flight and the purge endpoint (SpecRace)              *)
(***************************************************************************)
\* a request arrives at one of the two routes; hist[p] starts empty and will
\* hold the last purge request answered while this regeneration is in flight
RaceStart(p) ==
    /\ th[p].pc \in {"idle", "done"}
    /\ \E m \in {"task", "sync"} :
        th' = [th EXCEPT ![p] = [FrameIdle EXCEPT !.pc = "fetch", !.mode = m]]
    /\ hist' = [hist EXCEPT ![p] = NoHist]
    /\ UNCHANGED <<weather, alerts, now, tz, last, taskVars, response>>

\* POST /purge_cache for the province of the regenerations, with a list of
\* districts or none: one call of purge_cache_db, answered while the
\* regenerations of InFlight go on
InFlight == {p \in Resolvers : th[p].pc \notin {"idle", "done"}}

RacePurgeEndpoint ==
    \E districts \in PurgeLists, dbok \in BOOLEAN :
        LET out == purge_cache_db(alerts, weather, FrameProvince,
                        Range(EndpointDistricts(FrameProvince, districts)),
                        FrameDays, dbok)
        IN  /\ alerts' = out.alerts
            /\ weather' = out.weather
            /\ last' = [NoCall EXCEPT !.op = "endpoint",
                            !.key = <<FrameProvince, districts, FrameDays>>,
                            !.dbok = dbok,
                            !.val = <<out.count>>,
                            !.ret = <<"success", 200, out.count>>]
            /\ hist' = [p \in Resolvers |->
                            IF p \in InFlight
                            THEN [hist[p] EXCEPT !.calls = <<<<"purge", dbok>>>>]
                            ELSE hist[p]]
            /\ UNCHANGED <<now, tz, th, taskVars, response>>

NextRace ==
    \/ FrameTick
    \/ RacePurgeEndpoint
    \/ \E p \in Resolvers :
        \/ RaceStart(p)
        \/ FrameFetch(p)
        \/ FrameTransform(p)
        \/ FrameGenerate(p)
        \/ FramePurgeAndSave(p)

SpecRace == InitFrames /\ [][NextRace]_vars

\* C34: once a purge request for the keys of a regeneration has been
\* answered (and its deletes committed), the table holds no alert row of
\* those keys saved by a regeneration that was in flight when the purge was
\* answered: here, with one regeneration at a time, no row at all until the
\* next regeneration is scheduled.
C34_PurgeNotUndoneByInFlight ==
    \A p \in Resolvers :
        (/\ hist[p].calls # <<>>
         /\ hist[p].calls[1] = <<"purge", TRUE>>)
        => ~\E r \in alerts : AlertKey(r) = <<FrameProvince, FrameDistrict, FrameDays>>

(***************************************************************************)
(* Two regenerations of one scope, the whole province, in flight together  *)
(* (SpecScope)                                                             *)
(***************************************************************************)
\* the scope of both requests: no district list, so every district of the
\* province
WholeProvince == <<>>

\* the locals of a request of mode m that has just been accepted
Scheduled(m) ==
    [Idle EXCEPT !.pc = "lookup", !.mode = m,
                 !.todo = districts_to_fetch(ReqProvince, WholeProvince)]

\* both requests have arrived and none has taken a step: the tasks are
\* registered and answered "processing", a request of the combined route runs
\* in its handler
InitScope ==
    /\ weather = {}
    /\ alerts = OldAlerts
    /\ now = 0
    /\ tz = 0
    /\ last = NoCall
    /\ hist = [p \in Requests |-> NoHist]
    /\ task_results = <<>>
    /\ task_errors = <<>>
    /\ \E modes \in {f \in [Requests -> {"task", "sync"}] :
                        \A p \in Requests : f[p] \in Modes(p)} :
        /\ th = [p \in Requests |-> Scheduled(modes[p])]
        /\ tasks = [t \in {task_id(p) : p \in {q \in Requests : modes[q] = "task"}}
                        |-> CHOOSE p \in Requests : task_id(p) = t]
        /\ response = [p \in Requests |->
                          IF modes[p] = "task" THEN <<"processing">> ELSE None]

NextScope ==
    \E p \in Requests :
        \/ Lookup(p)
        \/ FetchFailed(p)
        \/ FetchDone(p)
        \/ TransformGet(p)
        \/ TransformSet(p)
        \/ Generate(p)
        \/ Purge(p)
        \/ Save(p)
        \/ WrapperRecord(p)
        \/ WrapperFinally(p)
        \/ Respond(p)

SpecScope == InitScope /\ [][NextScope]_vars

\* the regenerations that wrote an alert row of the province and horizon
\* that is in the table
Writers ==
    {w \in Requests :
        \E r \in ScopeRows(alerts, Range(PROVINCES(ReqProvince))) :
            r.alert_text = AlertText(w)}

\* C35: when the two regenerations of the province, in flight together, have
\* both completed with success, no store call of either having failed, the
\* alert rows of the province and horizon that they wrote were all written by
\* one and the same regeneration.
C35_FinalRowsFromOneRegeneration ==
    (\A p \in Requests :
        /\ th[p].pc = "done"
        /\ th[p].outcome = <<"success">>
        /\ ~hist[p].swallowed)
    => Cardinality(Writers) <= 1

(***************************************************************************)
(* purge_cache_db statement by statement: the DELETEs run on the           *)
(* connection's transaction, which the context manager commits or rolls    *)
(* back (SpecPurgeTx)                                                      *)
(***************************************************************************)
TxProvince == "PUNJAB"
TxDays == 1

\* the rows the tables may hold when a purge is called
TxAlertRows ==
    {AlertRow(k[1], k[2], k[3], <<"alert", "old">>, 0, 0) :
        k \in {<<"PUNJAB", "LAHORE", 1>>, <<"PUNJAB", "MULTAN", 1>>,
               <<"PUNJAB", "LAHORE", 3>>}}
TxWeatherRows ==
    {[cache_key |-> k, data |-> JsonDumps("a"), created_at |-> 0,
      expires_at |-> CACHE_TIME] :
        k \in {ForecastKey("PUNJAB", "LAHORE", 1),
               AlertsFrameKey("PUNJAB", 1, "MULTAN")}}

\* the district lists of the calls
TxLists == {<<>>, <<"LAHORE">>, <<"LAHORE", "MULTAN">>}

\* the locals of a call: the list, the districts the loop has yet to visit,
\* the tables as the open transaction sees them, the count, the value
\* returned, and the tables as they were when the call began
TxIdle == [pc |-> "idle", districts |-> <<>>, todo |-> <<>>, tx |-> None,
           count |-> 0, ret |-> None, before |-> None]

InitTx ==
    /\ weather \in SUBSET TxWeatherRows
    /\ alerts \in SUBSET TxAlertRows
    /\ now = 0
    /\ tz = 0
    /\ last = NoCall
    /\ th = [p \in Resolvers |-> TxIdle]
    /\ hist = [p \in Resolvers |-> NoHist]
    /\ tasks = <<>>
    /\ task_results = <<>>
    /\ task_errors = <<>>
    /\ response = [p \in Resolvers |-> None]

\* mutant: the connection commits each statement as it is executed
conn_autocommit(tables, tx) == tx

\* sqlite3.connect(DB_FILE, timeout=10.0) leaves the connection in its
\* default mode, where a DELETE opens a transaction: the database holds what
\* it held until the commit
uncommitted(tables, tx) == tables

\* conn.rollback() in the except branches of get_db_connection: the database
\* holds what it held before the transaction
conn_rollback(tables, tx) == tables

\* conn.commit() after the yield: the database holds what the transaction
\* has written
conn_commit(tables, tx) == tx

\* an exception inside the with-block or in the commit: rollback, re-raise,
\* and purge_cache_db returns 0 from its except
TxFails(p) ==
    LET db == conn_rollback([alerts |-> alerts, weather |-> weather], th[p].tx)
    IN  /\ alerts' = db.alerts
        /\ weather' = db.weather
        /\ th' = [th EXCEPT ![p].pc = "done", ![p].tx = None, ![p].ret = <<0>>]

\* purge_cache_db(province, districts, forecast_days) is called:
\* sqlite3.connect, which may fail, and conn.cursor()
TxBegin(p) ==
    /\ th[p].pc \in {"idle", "done"}
    /\ \E districts \in TxLists, ok \in BOOLEAN :
        LET locals == [TxIdle EXCEPT
                          !.pc = "alerts", !.districts = districts,
                          !.todo = districts,
                          !.tx = [alerts |-> alerts, weather |-> weather],
                          !.before = [alerts |-> alerts, weather |-> weather]]
        IN  IF ok
            THEN th' = [th EXCEPT ![p] = locals] /\ UNCHANGED <<alerts, weather>>
            ELSE /\ th' = [th EXCEPT ![p] = [locals EXCEPT !.pc = "done",
                                                !.tx = None, !.ret = <<0>>]]
                 /\ UNCHANGED <<alerts, weather>>
    /\ UNCHANGED <<now, tz, last, hist, taskVars, response>>

\* DELETE FROM alerts: of the province and horizon for an empty list, of the
\* district of this turn of the loop else; count takes the rowcount
TxDeleteAlerts(p) ==
    /\ th[p].pc = "alerts"
    /\ \E ok \in BOOLEAN :
        IF ok
        THEN LET ds == IF th[p].districts = <<>> THEN {} ELSE {Head(th[p].todo)}
                 gone == PurgedAlertRows(th[p].tx.alerts, TxProvince, ds, TxDays)
             IN  /\ th' = [th EXCEPT ![p].pc = "weather",
                                     ![p].tx.alerts = @ \ gone,
                                     ![p].count = @ + Cardinality(gone)]
                 /\ LET db == uncommitted([alerts |-> alerts, weather |-> weather],
                                          th'[p].tx)
                    IN  alerts' = db.alerts /\ weather' = db.weather
        ELSE TxFails(p)
    /\ UNCHANGED <<now, tz, last, hist, taskVars, response>>

\* DELETE FROM weather_cache: by the LIKE patterns for an empty list, by the
\* two keys of the district else; then the next turn of the loop, or
\* "return count"
TxDeleteWeather(p) ==
    /\ th[p].pc = "weather"
    /\ \E ok \in BOOLEAN :
        IF ok
        THEN LET ds == IF th[p].districts = <<>> THEN {} ELSE {Head(th[p].todo)}
                 gone == PurgedWeatherRows(th[p].tx.weather, TxProvince, ds, TxDays)
                 rest == IF th[p].todo = <<>> THEN <<>> ELSE Tail(th[p].todo)
             IN  /\ th' = [th EXCEPT ![p].pc = IF rest = <<>> THEN "commit" ELSE "alerts",
                                     ![p].todo = rest,
                                     ![p].tx.weather = @ \ gone]
                 /\ LET db == uncommitted([alerts |-> alerts, weather |-> weather],
                                          th'[p].tx)
                    IN  alerts' = db.alerts /\ weather' = db.weather
        ELSE TxFails(p)
    /\ UNCHANGED <<now, tz, last, hist, taskVars, response>>

\* the with-block is left by "return count": conn.commit(), which may fail
TxCommit(p) ==
    /\ th[p].pc = "commit"
    /\ \E ok \in BOOLEAN :
        IF ok
        THEN LET db == conn_commit([alerts |-> alerts, weather |-> weather], th[p].tx)
             IN  /\ alerts' = db.alerts
                 /\ weather' = db.weather
                 /\ th' = [th EXCEPT ![p].pc = "done", ![p].tx = None,
                                     ![p].ret = <<th[p].count>>]
        ELSE TxFails(p)
    /\ UNCHANGED <<now, tz, last, hist, taskVars, response>>

NextTx ==
    \E p \in Resolvers :
        \/ TxBegin(p)
        \/ TxDeleteAlerts(p)
        \/ TxDeleteWeather(p)
        \/ TxCommit(p)

SpecPurgeTx == InitTx /\ [][NextTx]_vars

\* C39: a purge is all or nothing. No state shows a part of its deletes: the
\* tables are as they were when the call began until it has returned, and
\* when it has returned they hold either exactly what they held, with 0
\* returned, or what they held less every row the call names in alerts and
\* in weather_cache, with the number of alert rows returned.
C39_PurgeAllOrNothing ==
    \A p \in Resolvers :
        /\ th[p].pc \in {"alerts", "weather", "commit"}
              => alerts = th[p].before.alerts /\ weather = th[p].before.weather
        /\ th[p].pc = "done"
              => LET b == th[p].before
                     ds == Range(th[p].districts)
                     all == purge_cache_db(b.alerts, b.weather, TxProvince, ds,
                                           TxDays, TRUE)
                 IN  \/ /\ alerts = b.alerts
                        /\ weather = b.weather
                        /\ th[p].ret = <<0>>
                     \/ /\ alerts = all.alerts
                        /\ weather = all.weather
                        /\ th[p].ret = <<all.count>>

\* C39 witness: the purge of LAHORE and MULTAN failed at a DELETE of its
\* second turn, after the DELETEs of the first had removed LAHORE's rows in
\* the transaction: 0 is returned and LAHORE's rows are in the tables.
C39_Witness ==
    \E p \in Resolvers :
        /\ th[p].pc = "done"
        /\ th[p].districts = <<"LAHORE", "MULTAN">>
        /\ th[p].todo = <<"MULTAN">>
        /\ th[p].count = 1
        /\ th[p].ret = <<0>>
        /\ \E r \in alerts : AlertKey(r) = <<"PUNJAB", "LAHORE", 1>>
        /\ \E r \in weather : r.cache_key = ForecastKey("PUNJAB", "LAHORE", 1)

(***************************************************************************)
(* POST /generate_forecast: the route over get_bulk_weather_data           *)
(* (SpecForecast)                                                          *)
(***************************************************************************)
\* the "districts" of the request body; NOWHERE is no district of the
\* province
ForecastLists == {<<>>, <<"LAHORE">>, <<"LAHORE", "MULTAN">>, <<"NOWHERE">>}

InitForecast ==
    /\ weather = {}
    /\ alerts = {}
    /\ now = 0
    /\ tz = 0
    /\ last = NoCall
    /\ th = [p \in Resolvers |-> ResolveIdle]
    /\ hist = [p \in Resolvers |-> NoHist]
    /\ tasks = <<>>
    /\ task_results = <<>>
    /\ task_errors = <<>>
    /\ response = [p \in Resolvers |-> None]

\* {d: PROVINCES[province][d] for d in districts if d in PROVINCES[province]}
SelectDistricts(province, districts) ==
    SelectSeq(districts, LAMBDA d : d \in Range(PROVINCES(province)))

\* the request is parsed and the districts are selected. With a list the
\* route calls get_bulk_weather_data(province, districts_to_fetch,
\* forecast_days, cache_time=0); with no list the branch that holds the call
\* is not taken and weather_data is not bound
ForecastRouteStart(p) ==
    /\ th[p].pc \in {"idle", "answered"}
    /\ \E districts \in ForecastLists :
        /\ last' = [NoCall EXCEPT !.op = "generate_forecast", !.key = districts]
        /\ th' = [th EXCEPT ![p] =
                    IF districts = <<>>
                    THEN [ResolveIdle EXCEPT !.pc = "unbound"]
                    ELSE LET ks == SelectDistricts("PUNJAB", districts)
                         IN  AfterLookup([ResolveIdle EXCEPT
                                !.cache_time = RouteCacheTime,
                                !.keys = ks, !.todo = ks])]
    /\ response' = [response EXCEPT ![p] = None]
    /\ UNCHANGED <<weather, alerts, now, tz, hist, taskVars>>

\* the return of the route: the success document with len(weather_data), or,
\* weather_data not being bound, an UnboundLocalError outside every try,
\* which the framework answers with status 500
ForecastRouteRespond(p) ==
    /\ th[p].pc \in {"returned", "unbound"}
    /\ response' = [response EXCEPT ![p] =
            IF th[p].pc = "unbound" THEN <<"error", 500>>
            ELSE <<"success", 200, Cardinality(DOMAIN th[p].result[1])>>]
    /\ th' = [th EXCEPT ![p].pc = "answered"]
    /\ UNCHANGED <<weather, alerts, now, tz, last, hist, taskVars>>

NextForecast ==
    \/ ResolveTick
    \/ \E p \in Resolvers :
        \/ ForecastRouteStart(p)
        \/ ResolveLookup(p)
        \/ ResolveFetchOk(p)
        \/ ResolveFetchFail(p)
        \/ ForecastRouteRespond(p)

SpecForecast == InitForecast /\ [][NextForecast]_vars

\* C40: a forecast request with an empty district list resolves the
\* forecasts of every district of the province and is answered with the
\* success status and the number of districts resolved, as a request with a
\* list is.
C40_EmptyListMeansWholeProvince ==
    \A p \in Resolvers :
        (th[p].pc = "answered" /\ last.key = <<>>)
            => /\ Range(th[p].keys) = Range(PROVINCES("PUNJAB"))
               /\ th[p].result # None
               /\ response[p] = <<"success", 200, Cardinality(DOMAIN th[p].result[1])>>

====
